---- MODULE Spec2Model ----
(***************************************************************************)
(* A model of the decoding core of notion-client-rs (src/src/lib.rs):      *)
(* the date codec (DateValue), the tagged-union decoders (Formula, Parent, *)
(* File, Icon, Mention, RichText, Property, DatabaseProperty, Block), the  *)
(* dual-indexed property maps and the recursive Block assembly.            *)
(*                                                                         *)
(* A caller is modelled as a small state machine: it is idle, calls one    *)
(* decoder on one input (pc = "done" holds the call and what it returned), *)
(* optionally applies a second operation to the returned value, and goes   *)
(* back to idle.  The decoders themselves are pure functions and are       *)
(* operators of this module.                                               *)
(***************************************************************************)
EXTENDS Integers, Sequences, FiniteSets, TLC

VARIABLES
    pc,     \* "idle" | "done" | "shown" | "again": position of the caller
    fn,     \* name of the decoder that was called ("" when idle)
    arg,    \* the argument it was called with
    truth,  \* what the input was built from (only for generated date strings)
    ret,    \* what the call returned
    out,    \* result of the follow-up operation (to_string / get), if any
    builder,  \* the ClientBuilder: its fields, and whether build() was called
    heap,     \* the objects behind the Arcs made by build(), by address
    handles,  \* the handles the program still owns: the addresses each holds
    calls     \* the transport operations in flight, by slot

\* the state of the decoding caller / of the transport layer
decoding == <<pc, fn, arg, truth, ret, out>>
transport == <<builder, heap, handles, calls>>

vars == <<pc, fn, arg, truth, ret, out, builder, heap, handles, calls>>

(***************************************************************************)
(* Results.  A Rust call either returns Ok(value), returns Err(error) or   *)
(* panics (unwrap / expect on upstream data).                              *)
(***************************************************************************)
None == <<>>
Some(v) == <<v>>

Ok(v) == [tag |-> "Ok", val |-> v]
Err(e) == [tag |-> "Err", err |-> e]
Panic(m) == [tag |-> "Panic", msg |-> m]

IsOk(r) == r.tag = "Ok"
IsErr(r) == r.tag = "Err"
IsPanic(r) == r.tag = "Panic"

\* every result of rs is Ok
AllOk(rs) == \A i \in 1..Len(rs) : rs[i].tag = "Ok"

\* the first result of rs that is not Ok
FirstFail(rs) ==
    rs[CHOOSE i \in 1..Len(rs) : rs[i].tag # "Ok" /\ \A j \in 1..(i - 1) : rs[j].tag = "Ok"]

\* the `?` operator on one result: an Ok value goes on to K, anything else
\* is returned to the caller
AndThen(r, K(_)) == IF r.tag = "Ok" THEN K(r.val) ELSE r

\* the `?` operator on results computed one after the other: the first
\* that is not Ok is returned, otherwise K builds the value from all of them
Fields(rs, K(_)) == IF AllOk(rs) THEN K(rs) ELSE FirstFail(rs)

\* r.map(Some)
OkSome(r) == AndThen(r, LAMBDA x : Ok(Some(x)))

\* enum Error (the variants a decoder can produce)
NoSuchProperty(key) == [kind |-> "NoSuchProperty", key |-> key, frag |-> None]
Deserialization(frag) == [kind |-> "Deserialization", key |-> "", frag |-> frag]
ChronoParse == [kind |-> "ChronoParse", key |-> "", frag |-> None]

(***************************************************************************)
(* Characters and numbers in text.  A string is a TLA+ string; Ch(s, i)    *)
(* is its i-th character.                                                  *)
(***************************************************************************)
Ch(s, i) == IF i \in 1..Len(s) THEN SubSeq(s, i, i) ELSE ""

\* s[a..b], clipped to the string
Sub(s, a, b) ==
    LET lo == IF a < 1 THEN 1 ELSE a
        hi == IF b > Len(s) THEN Len(s) ELSE b
    IN  IF lo > hi THEN "" ELSE SubSeq(s, lo, hi)

AsciiDigits == {"0", "1", "2", "3", "4", "5", "6", "7", "8", "9"}

\* "~" stands for a decimal digit outside ASCII (such as U+0663), which the
\* regex class \d matches and chrono's number scanner does not.
NonAsciiDigit == "~"

DigitVal(c) ==
    CASE c = "0" -> 0 [] c = "1" -> 1 [] c = "2" -> 2 [] c = "3" -> 3
      [] c = "4" -> 4 [] c = "5" -> 5 [] c = "6" -> 6 [] c = "7" -> 7
      [] c = "8" -> 8 [] c = "9" -> 9

DigitChar(n) == SubSeq("0123456789", n + 1, n + 1)

AllAsciiDigits(s) == \A i \in 1..Len(s) : Ch(s, i) \in AsciiDigits

RECURSIVE NumVal(_)
NumVal(s) ==
    IF Len(s) = 0 THEN 0
    ELSE 10 * NumVal(Sub(s, 1, Len(s) - 1)) + DigitVal(Ch(s, Len(s)))

Pad2(n) == DigitChar(n \div 10) \o DigitChar(n % 10)
Pad3(n) == DigitChar(n \div 100) \o Pad2(n % 100)
Pad4(n) == Pad2(n \div 100) \o Pad2(n % 100)

RECURSIVE Decimal(_)
Decimal(n) == IF n < 10 THEN DigitChar(n) ELSE Decimal(n \div 10) \o DigitChar(n % 10)

(***************************************************************************)
(* chrono: calendar arithmetic, RFC 3339 parsing and formatting.           *)
(* A NaiveDateTime is [y, m, d, secs, nanos] with secs the second of the   *)
(* day and nanos >= 10^9 during a leap second (chrono's representation).   *)
(***************************************************************************)
IsLeapYear(y) == (y % 4 = 0 /\ y % 100 # 0) \/ y % 400 = 0

DaysInMonth(y, m) ==
    CASE m \in {1, 3, 5, 7, 8, 10, 12} -> 31
      [] m \in {4, 6, 9, 11} -> 30
      [] m = 2 -> IF IsLeapYear(y) THEN 29 ELSE 28

SecsPerDay == 86400
NanosPerSec == 1000000000

NaiveDateTime(y, m, d, secs, nanos) ==
    [y |-> y, m |-> m, d |-> d, secs |-> secs, nanos |-> nanos]

succ_day(t) ==
    IF t.d < DaysInMonth(t.y, t.m) THEN [t EXCEPT !.d = t.d + 1]
    ELSE IF t.m < 12 THEN [t EXCEPT !.m = t.m + 1, !.d = 1]
    ELSE [t EXCEPT !.y = t.y + 1, !.m = 1, !.d = 1]

pred_day(t) ==
    IF t.d > 1 THEN [t EXCEPT !.d = t.d - 1]
    ELSE IF t.m > 1 THEN [t EXCEPT !.m = t.m - 1, !.d = DaysInMonth(t.y, t.m - 1)]
    ELSE [t EXCEPT !.y = t.y - 1, !.m = 12, !.d = 31]

\* NaiveDateTime + rhs seconds, |rhs| < 86400; a leap second is kept
add_secs(t, rhs) ==
    LET total == t.secs + rhs
    IN  IF total < 0 THEN [pred_day(t) EXCEPT !.secs = total + SecsPerDay]
        ELSE IF total >= SecsPerDay THEN [succ_day(t) EXCEPT !.secs = total - SecsPerDay]
        ELSE [t EXCEPT !.secs = total]

\* number of ASCII digits of s starting at position i
RECURSIVE DigitRun(_, _)
DigitRun(s, i) == IF Ch(s, i) \in AsciiDigits THEN 1 + DigitRun(s, i + 1) ELSE 0

RECURSIVE Pow10(_)
Pow10(k) == IF k = 0 THEN 1 ELSE 10 * Pow10(k - 1)

\* an offset of mag seconds east (sign "+") or west (sign "-"), below one day
offset_of(sign, mag) ==
    IF mag >= SecsPerDay THEN None ELSE Some(IF sign = "-" THEN 0 - mag ELSE mag)

\* the UTC offset at the end of a timestamp: seconds east, or None
timezone_offset(off) ==
    IF off \in {"Z", "z"} THEN Some(0)
    ELSE IF /\ Len(off) = 6
            /\ Ch(off, 1) \in {"+", "-"}
            /\ AllAsciiDigits(Sub(off, 2, 3))
            /\ Ch(off, 4) = ":"
            /\ Ch(off, 5) \in {"0", "1", "2", "3", "4", "5"}
            /\ Ch(off, 6) \in AsciiDigits
    THEN offset_of(Ch(off, 1), NumVal(Sub(off, 2, 3)) * 3600 + NumVal(Sub(off, 5, 6)) * 60)
    ELSE None

\* the fixed-width part of a timestamp: YYYY-MM-DDTHH:MM:SS and one more character
rfc3339_shape(s) ==
    /\ Len(s) >= 20
    /\ AllAsciiDigits(Sub(s, 1, 4)) /\ Ch(s, 5) = "-"
    /\ AllAsciiDigits(Sub(s, 6, 7)) /\ Ch(s, 8) = "-"
    /\ AllAsciiDigits(Sub(s, 9, 10)) /\ Ch(s, 11) \in {"T", "t"}
    /\ AllAsciiDigits(Sub(s, 12, 13)) /\ Ch(s, 14) = ":"
    /\ AllAsciiDigits(Sub(s, 15, 16)) /\ Ch(s, 17) = ":"
    /\ AllAsciiDigits(Sub(s, 18, 19))

\* nanoseconds of a fraction given by its digits (at most nine are used)
fraction_nanos(digits) == NumVal(digits) * Pow10(9 - Len(digits))

\* the timestamp of the parsed fields, checked against the calendar, in UTC
rfc3339_fields(y, m, d, hh, mi, ss, frac, off) ==
    IF off = None THEN Err(ChronoParse)
    ELSE IF m \notin 1..12 \/ d < 1 \/ hh > 23 \/ mi > 59 \/ ss > 60 THEN Err(ChronoParse)
    ELSE IF d > DaysInMonth(y, m) THEN Err(ChronoParse)
    ELSE Ok([utc |-> add_secs(NaiveDateTime(y, m, d,
                                  hh * 3600 + mi * 60 + (IF ss = 60 THEN 59 ELSE ss),
                                  IF ss = 60 THEN frac + NanosPerSec ELSE frac),
                              0 - off[1]),
             offset |-> off[1]])

\* the timestamp whose fraction has fracLen digits (-1: no fraction at all)
rfc3339_parts(s, fracLen) ==
    IF fracLen = 0 THEN Err(ChronoParse)
    ELSE rfc3339_fields(NumVal(Sub(s, 1, 4)), NumVal(Sub(s, 6, 7)), NumVal(Sub(s, 9, 10)),
                        NumVal(Sub(s, 12, 13)), NumVal(Sub(s, 15, 16)),
                        NumVal(Sub(s, 18, 19)),
                        IF fracLen < 0 THEN 0
                        ELSE fraction_nanos(Sub(s, 21, 20 + (IF fracLen > 9 THEN 9
                                                             ELSE fracLen))),
                        timezone_offset(Sub(s, IF fracLen < 0 THEN 20 ELSE 21 + fracLen,
                                            Len(s))))

\* DateTime::parse_from_rfc3339: Ok([utc, offset]) or Err(ChronoParse)
parse_from_rfc3339(s) ==
    IF ~rfc3339_shape(s) THEN Err(ChronoParse)
    ELSE rfc3339_parts(s, IF Ch(s, 20) = "." THEN DigitRun(s, 21) ELSE 0 - 1)

\* DateTime<FixedOffset>::with_timezone(&Utc): the same instant, offset 0
with_timezone_utc(dt) == dt.utc

\* DateTime<FixedOffset>::date_naive: the date in the value's own offset
date_naive(dt) ==
    LET local == add_secs(dt.utc, dt.offset)
    IN  [y |-> local.y, m |-> local.m, d |-> local.d]

\* NaiveDate::and_hms_opt(0, 0, 0) followed by DateTime::<Utc>::from_utc
and_hms_midnight_utc(date) == NaiveDateTime(date.y, date.m, date.d, 0, 0)

\* DateTime<Utc>::to_rfc3339 (SecondsFormat::AutoSi, offset written +00:00)
to_rfc3339(t) ==
    LET year == IF t.y \in 0..9999 THEN Pad4(t.y)
                ELSE IF t.y < 0 THEN "-" \o Pad4(0 - t.y)
                ELSE "+" \o Decimal(t.y)
        leap == t.nanos >= NanosPerSec
        nanos == IF leap THEN t.nanos - NanosPerSec ELSE t.nanos
        sec == (t.secs % 60) + (IF leap THEN 1 ELSE 0)
        fraction ==
            IF nanos = 0 THEN ""
            ELSE IF nanos % 1000000 = 0 THEN "." \o Pad3(nanos \div 1000000)
            ELSE IF nanos % 1000 = 0
                 THEN "." \o Pad3(nanos \div 1000000) \o Pad3((nanos \div 1000) % 1000)
            ELSE "." \o Pad3(nanos \div 1000000) \o Pad3((nanos \div 1000) % 1000)
                     \o Pad3(nanos % 1000)
    IN  year \o "-" \o Pad2(t.m) \o "-" \o Pad2(t.d) \o "T"
             \o Pad2(t.secs \div 3600) \o ":" \o Pad2((t.secs \div 60) % 60)
             \o ":" \o Pad2(sec) \o fraction \o "+00:00"

(***************************************************************************)
(* DateValue (lib.rs 1028-1074)                                            *)
(***************************************************************************)
\* ISO_8601_DATE.is_match: ^\d{4}-\d{2}-\d{2}$ with the regex crate's \d,
\* which is the Unicode decimal-digit class
RegexDigit(c) == c \in AsciiDigits \/ c = NonAsciiDigit

ISO_8601_DATE_is_match(s) ==
    /\ Len(s) = 10
    /\ \A i \in {1, 2, 3, 4, 6, 7, 9, 10} : RegexDigit(Ch(s, i))
    /\ Ch(s, 5) = "-"
    /\ Ch(s, 8) = "-"

DateValue_Date(date) == [variant |-> "Date", date |-> date]
DateValue_DateTime(t) == [variant |-> "DateTime", time |-> t]

\* DateValue::Date(date_naive) of a parsed timestamp
DateValue_from_date(r) == AndThen(r, LAMBDA dt : Ok(DateValue_Date(date_naive(dt))))

\* DateValue::DateTime(with_timezone(&Utc)) of a parsed timestamp
DateValue_from_time(r) ==
    AndThen(r, LAMBDA dt : Ok(DateValue_DateTime(with_timezone_utc(dt))))

\* DateValue::try_from with the synthetic time lacking its offset ("T00:00:00")
DateValue_try_from_NoZone(string) ==
    IF ISO_8601_DATE_is_match(string)
    THEN DateValue_from_date(parse_from_rfc3339(string \o "T00:00:00"))
    ELSE DateValue_from_time(parse_from_rfc3339(string))

\* DateValue::try_from keeping the local wall-clock time (naive_local) as if UTC
DateValue_try_from_KeepLocal(string) ==
    IF ISO_8601_DATE_is_match(string)
    THEN DateValue_from_date(parse_from_rfc3339(string \o "T00:00:00Z"))
    ELSE AndThen(parse_from_rfc3339(string),
                 LAMBDA dt : Ok(DateValue_DateTime(add_secs(dt.utc, dt.offset))))

\* DateValue::try_from falling back to the epoch when the timestamp does not parse
DateValue_try_from_DefaultOnError(string) ==
    IF ISO_8601_DATE_is_match(string)
    THEN DateValue_from_date(parse_from_rfc3339(string \o "T00:00:00Z"))
    ELSE IF IsOk(parse_from_rfc3339(string))
    THEN DateValue_from_time(parse_from_rfc3339(string))
    ELSE Ok(DateValue_DateTime(NaiveDateTime(1970, 1, 1, 0, 0)))

\* impl TryFrom<String> for DateValue
DateValue_try_from(string) ==
    IF ISO_8601_DATE_is_match(string)
    THEN DateValue_from_date(parse_from_rfc3339(string \o "T00:00:00Z"))
    ELSE DateValue_from_time(parse_from_rfc3339(string))

\* impl Display for DateValue (and From<DateValue> for String)
DateValue_to_string(value) ==
    IF value.variant = "Date"
    THEN to_rfc3339(and_hms_midnight_utc(value.date))
    ELSE to_rfc3339(value.time)

(***************************************************************************)
(* JSON (serde_json::Value).  A value is a tagged pair; an object is a      *)
(* function from its keys to values, an array a sequence.                   *)
(***************************************************************************)
JNull == <<"null">>
JBool(b) == <<"bool", b>>
JNum(n) == <<"num", n>>
JStr(s) == <<"str", s>>
JArr(a) == <<"arr", a>>
JObj(f) == <<"obj", f>>

NoFields == <<>>

IsNull(v) == v[1] = "null"
IsBool(v) == v[1] = "bool"
IsNum(v) == v[1] = "num"
IsStr(v) == v[1] = "str"
IsArr(v) == v[1] = "arr"
IsObj(v) == v[1] = "obj"

\* Value::get(key): only an object has keys
Value_get(data, key) ==
    IF IsObj(data) /\ key \in DOMAIN data[2] THEN Some(data[2][key]) ELSE None

\* the object with one field set (added or overwritten) / removed
With(data, key, v) == JObj((key :> v) @@ data[2])
Without(data, key) == JObj([k \in (DOMAIN data[2]) \ {key} |-> data[2][k]])

(***************************************************************************)
(* Types deserialized by #[derive(Deserialize)].  A struct lists its       *)
(* fields in declaration order (the order a JSON array is read in) and its *)
(* keys in the order a JSON object is walked (sorted).                     *)
(***************************************************************************)
Struct(fields, keys) == [k |-> "struct", fields |-> fields, keys |-> keys]
UnitEnum(names) == [k |-> "enum", names |-> names]

ColorNames ==
    { "default", "gray", "brown", "orange", "yellow", "green", "blue", "purple",
      "pink", "red", "gray_background", "brown_background", "orange_background",
      "yellow_background", "green_background", "blue_background",
      "purple_background", "pink_background", "red_background" }

CodeLanguageNames ==
    { "abap", "arduino", "bash", "basic", "c", "clojure", "coffeescript", "c++",
      "c#", "css", "dart", "diff", "docker", "elixer", "elm", "erlang", "flow",
      "fortan", "f#", "gherkin", "glsl", "go", "graphql", "groovy", "haskell",
      "html", "java", "javascript", "json", "julia", "kotlin", "latex", "less",
      "lisp", "livescript", "lua", "makefile", "markdown", "markup", "matlab",
      "mermaid", "nix", "objective-c", "ocaml", "pascal", "perl", "php",
      "plain text", "powershell", "prolog", "protobuf", "python", "r", "reason",
      "ruby", "rust", "sass", "scala", "scheme", "scss", "shell", "sql", "swift",
      "typescript", "vb.net", "verilog", "vhdl", "visual basic", "webassembly",
      "xml", "yaml", "java/c/c++/c#" }

TypeDef(ty) ==
    CASE ty = "Heading" ->
            Struct(<< <<"color", "Color">>, <<"rich_text", "Vec<RichText>">>,
                      <<"is_toggleable", "bool">> >>,
                   <<"color", "is_toggleable", "rich_text">>)
      [] ty = "PDF" -> Struct(<< <<"pdf", "File">> >>, <<"pdf">>)
      [] ty = "FileBlock" ->
            Struct(<< <<"file", "File">>, <<"caption", "Vec<RichText>">> >>,
                   <<"caption", "file">>)
      [] ty = "Image" -> Struct(<< <<"image", "File">> >>, <<"image">>)
      [] ty = "Video" -> Struct(<< <<"video", "File">> >>, <<"video">>)
      [] ty = "ColumnList" ->
            Struct(<< <<"children", "Option<Vec<Column>>">> >>, <<"children">>)
      [] ty = "Column" ->
            Struct(<< <<"children", "Option<Vec<Block>>">> >>, <<"children">>)
      [] ty = "Callout" ->
            Struct(<< <<"icon", "Option<Icon>">>, <<"color", "Color">>,
                      <<"rich_text", "Vec<RichText>">>,
                      <<"children", "Option<Vec<Block>>">> >>,
                   <<"children", "color", "icon", "rich_text">>)
      [] ty = "Quote" ->
            Struct(<< <<"color", "Color">>, <<"rich_text", "Vec<RichText>">>,
                      <<"children", "Option<Vec<Block>>">> >>,
                   <<"children", "color", "rich_text">>)
      [] ty = "ToDoItem" ->
            Struct(<< <<"color", "Color">>, <<"rich_text", "Vec<RichText>">>,
                      <<"checked", "Option<bool>">>,
                      <<"children", "Option<Vec<Block>>">> >>,
                   <<"checked", "children", "color", "rich_text">>)
      [] ty = "ListItem" ->
            Struct(<< <<"color", "Color">>, <<"rich_text", "Vec<RichText>">>,
                      <<"children", "Option<Vec<Block>>">> >>,
                   <<"children", "color", "rich_text">>)
      [] ty = "Paragraph" ->
            Struct(<< <<"color", "Color">>, <<"rich_text", "Vec<RichText>">> >>,
                   <<"color", "rich_text">>)
      [] ty = "Code" ->
            Struct(<< <<"language", "CodeLanguage">>, <<"caption", "Vec<RichText>">>,
                      <<"rich_text", "Vec<RichText>">> >>,
                   <<"caption", "language", "rich_text">>)
      [] ty = "ChildPage" -> Struct(<< <<"title", "String">> >>, <<"title">>)
      [] ty = "ChildDatabase" -> Struct(<< <<"title", "String">> >>, <<"title">>)
      [] ty = "User" ->
            Struct(<< <<"id", "String">>, <<"name", "Option<String>">>,
                      <<"person", "Option<Person>">>,
                      <<"avatar_url", "Option<String>">> >>,
                   <<"avatar_url", "id", "name", "person">>)
      [] ty = "Person" -> Struct(<< <<"email", "String">> >>, <<"email">>)
      [] ty = "PartialUser" -> Struct(<< <<"id", "String">> >>, <<"id">>)
      [] ty = "DatabaseFormula" ->
            Struct(<< <<"expression", "String">> >>, <<"expression">>)
      [] ty = "SelectOption" ->
            Struct(<< <<"id", "String">>, <<"name", "String">>, <<"color", "Color">> >>,
                   <<"color", "id", "name">>)
      [] ty = "LinkPreview" -> Struct(<< <<"url", "String">> >>, <<"url">>)
      [] ty = "PartialPage" -> Struct(<< <<"id", "String">> >>, <<"id">>)
      [] ty = "PartialDatabase" -> Struct(<< <<"id", "String">> >>, <<"id">>)
      [] ty = "PartialBlock" -> Struct(<< <<"id", "String">> >>, <<"id">>)
      [] ty = "Date" ->
            Struct(<< <<"start", "DateValue">>, <<"end", "Option<DateValue>">>,
                      <<"time_zone", "Option<String>">> >>,
                   <<"end", "start", "time_zone">>)
      [] ty = "Equation" -> Struct(<< <<"plain_text", "String">> >>, <<"plain_text">>)
      [] ty = "Link" -> Struct(<< <<"url", "String">> >>, <<"url">>)
      [] ty = "Annotations" ->
            Struct(<< <<"bold", "bool">>, <<"italic", "bool">>,
                      <<"strikethrough", "bool">>, <<"underline", "bool">>,
                      <<"code", "bool">>, <<"color", "Color">> >>,
                   <<"bold", "code", "color", "italic", "strikethrough", "underline">>)
      [] ty = "Page" ->
            Struct(<< <<"id", "String">>, <<"created_by", "PartialUser">>,
                      <<"url", "String">>, <<"parent", "Parent">>,
                      <<"created_time", "DateValue">>,
                      <<"last_edited_time", "DateValue">>,
                      <<"cover", "Option<File>">>, <<"icon", "Option<Icon>">>,
                      <<"properties", "Properties">>, <<"archived", "bool">> >>,
                   <<"archived", "cover", "created_by", "created_time", "icon", "id",
                     "last_edited_time", "parent", "properties", "url">>)
      [] ty = "QueryResponse<Page>" ->
            Struct(<< <<"has_more", "bool">>, <<"next_cursor", "Option<String>">>,
                      <<"results", "Vec<Page>">> >>,
                   <<"has_more", "next_cursor", "results">>)
      [] ty = "QueryResponse<Block>" ->
            Struct(<< <<"has_more", "bool">>, <<"next_cursor", "Option<String>">>,
                      <<"results", "Vec<Block>">> >>,
                   <<"has_more", "next_cursor", "results">>)
      [] ty = "Color" -> UnitEnum(ColorNames)
      [] ty = "CodeLanguage" -> UnitEnum(CodeLanguageNames)

IsOption(ty) == Len(ty) > 8 /\ Sub(ty, 1, 7) = "Option<"
IsVec(ty) == Len(ty) > 5 /\ Sub(ty, 1, 4) = "Vec<"
Inner(ty) == IF IsOption(ty) THEN Sub(ty, 8, Len(ty) - 1) ELSE Sub(ty, 5, Len(ty) - 1)

\* a serde_json::Error (its message is not modelled)
SerdeError == [kind |-> "serde_json::Error", key |-> "", frag |-> None]

(***************************************************************************)
(* Deserialization.  De(ty, v) is serde_json::from_value::<ty>(v): Ok(value),*)
(* Err(SerdeError), or a panic raised by a TryFrom implementation.          *)
(***************************************************************************)
RECURSIVE De(_, _), DeStruct(_, _), TryFrom(_, _), parse(_, _, _), from_value(_, _)
RECURSIVE Block_try_from(_), Formula_try_from(_)
RECURSIVE Select_try_from(_), MultiSelect_try_from(_), RichText_try_from(_)
RECURSIVE Text_try_from(_), Mention_try_from(_), Property_try_from(_)
RECURSIVE DatabaseProperty_try_from(_), Parent_try_from(_), File_try_from(_)
RECURSIVE Icon_try_from(_), Properties_try_from(_), DatabaseProperties_try_from(_)

\* the types declared #[serde(try_from = "Value")]
TryFromValueTypes ==
    { "Block", "Properties", "DatabaseProperties", "Formula", "Select",
      "MultiSelect", "RichText", "Text", "Mention", "Property",
      "DatabaseProperty", "Parent", "File", "Icon" }

\* the error of a #[serde(try_from = ...)] conversion becomes a serde error
SerdeResult(r) == IF IsErr(r) THEN Err(SerdeError) ELSE r

FieldNames(def) == {def.fields[i][1] : i \in 1..Len(def.fields)}
FieldAt(def, name) == CHOOSE i \in 1..Len(def.fields) : def.fields[i][1] = name

\* a struct from a JSON object whose fields deserialized to rs: the object's
\* entries are visited in key order, then missing fields are reported
DeObject(def, v, rs) ==
    IF AllOk(rs) THEN Ok([name \in FieldNames(def) |-> rs[FieldAt(def, name)].val])
    ELSE IF \E k \in 1..Len(def.keys) :
               def.keys[k] \in DOMAIN v[2] /\ rs[FieldAt(def, def.keys[k])].tag # "Ok"
    THEN rs[FieldAt(def, def.keys[CHOOSE k \in 1..Len(def.keys) :
               /\ def.keys[k] \in DOMAIN v[2]
               /\ rs[FieldAt(def, def.keys[k])].tag # "Ok"
               /\ \A j \in 1..(k - 1) :
                     def.keys[j] \in DOMAIN v[2] =>
                         rs[FieldAt(def, def.keys[j])].tag = "Ok"])]
    ELSE FirstFail(rs)

\* a struct from a JSON array whose leading elements deserialized to rs
DeArray(def, v, rs) ==
    IF ~AllOk(rs) THEN FirstFail(rs)
    ELSE IF Len(v[2]) # Len(def.fields) THEN Err(SerdeError)
    ELSE Ok([name \in FieldNames(def) |-> rs[FieldAt(def, name)].val])

\* #[derive(Deserialize)] on a struct: from a JSON object (a missing Option
\* field is None, any other missing field fails) or from a JSON array
DeStruct(def, v) ==
    IF IsObj(v)
    THEN DeObject(def, v,
                  [i \in 1..Len(def.fields) |->
                      IF def.fields[i][1] \in DOMAIN v[2]
                      THEN De(def.fields[i][2], v[2][def.fields[i][1]])
                      ELSE IF IsOption(def.fields[i][2]) THEN Ok(None)
                      ELSE Err(SerdeError)] \o <<>>)
    ELSE IF IsArr(v)
    THEN DeArray(def, v,
                 [i \in 1..(IF Len(v[2]) < Len(def.fields) THEN Len(v[2])
                            ELSE Len(def.fields)) |->
                     De(def.fields[i][2], v[2][i])] \o <<>>)
    ELSE Err(SerdeError)

\* a unit-only enum: from its name, or from {name: null}
DeEnum(def, v) ==
    IF IsStr(v) /\ v[2] \in def.names THEN Ok(v[2])
    ELSE IF /\ IsObj(v)
            /\ \E name \in def.names : DOMAIN v[2] = {name} /\ IsNull(v[2][name])
    THEN Ok(CHOOSE name \in def.names : DOMAIN v[2] = {name})
    ELSE Err(SerdeError)

\* serde_json::from_value::<ty>(v)
De(ty, v) ==
    CASE ty = "String" -> IF IsStr(v) THEN Ok(v[2]) ELSE Err(SerdeError)
      [] ty = "bool" -> IF IsBool(v) THEN Ok(v[2]) ELSE Err(SerdeError)
      [] ty = "f64" -> IF IsNum(v) THEN Ok(v[2]) ELSE Err(SerdeError)
      [] ty = "Value" -> Ok(v)
      [] ty = "DateValue" ->
            \* #[serde(try_from = "String")]
            IF IsStr(v) THEN SerdeResult(DateValue_try_from(v[2])) ELSE Err(SerdeError)
      [] IsOption(ty) /\ IsNull(v) -> Ok(None)
      [] IsOption(ty) /\ ~IsNull(v) -> OkSome(De(Inner(ty), v))
      [] IsVec(ty) /\ ~IsArr(v) -> Err(SerdeError)
      [] IsVec(ty) /\ IsArr(v) ->
            Fields([i \in 1..Len(v[2]) |-> De(Inner(ty), v[2][i])] \o <<>>,
                   LAMBDA rs : Ok([i \in 1..Len(rs) |-> rs[i].val]))
      [] ty \in TryFromValueTypes -> SerdeResult(TryFrom(ty, v))
      [] OTHER ->
            IF TypeDef(ty).k = "enum" THEN DeEnum(TypeDef(ty), v)
            ELSE DeStruct(TypeDef(ty), v)

TryFrom(ty, v) ==
    CASE ty = "Block" -> Block_try_from(v)
      [] ty = "Properties" -> Properties_try_from(v)
      [] ty = "DatabaseProperties" -> DatabaseProperties_try_from(v)
      [] ty = "Formula" -> Formula_try_from(v)
      [] ty = "Select" -> Select_try_from(v)
      [] ty = "MultiSelect" -> MultiSelect_try_from(v)
      [] ty = "RichText" -> RichText_try_from(v)
      [] ty = "Text" -> Text_try_from(v)
      [] ty = "Mention" -> Mention_try_from(v)
      [] ty = "Property" -> Property_try_from(v)
      [] ty = "DatabaseProperty" -> DatabaseProperty_try_from(v)
      [] ty = "Parent" -> Parent_try_from(v)
      [] ty = "File" -> File_try_from(v)
      [] ty = "Icon" -> Icon_try_from(v)

\* .map_err(|error| Error::Deserialization(error, Some(data.clone())))
WithFragment(r, data) == IF IsErr(r) THEN Err(Deserialization(Some(data))) ELSE r

\* From<serde_json::Error> for Error: Error::Deserialization(error, None)
WithoutFragment(r) == IF IsErr(r) THEN Err(Deserialization(None)) ELSE r

\* parse reading an absent key as null (data.get(key).unwrap_or(&Value::Null))
parse_AbsentAsNull(ty, key, data) ==
    WithFragment(De(ty, IF Value_get(data, key) = None THEN JNull
                        ELSE Value_get(data, key)[1]),
                 data)

\* fn parse<T>(key, data): lib.rs 65-72
parse(ty, key, data) ==
    IF Value_get(data, key) = None THEN Err(NoSuchProperty(key))
    ELSE WithFragment(De(ty, Value_get(data, key)[1]), data)

\* serde_json::from_value::<T>(data)?  with From<serde_json::Error> for Error
from_value(ty, data) == WithoutFragment(De(ty, data))

\* a variant of an enum wrapping the decoded payload r (if it decoded)
Variant(name, r) == AndThen(r, LAMBDA x : Ok([variant |-> name, value |-> x]))

Unsupported(tag, raw) == [variant |-> "Unsupported", tag |-> tag, raw |-> raw]

\* Formula::try_from with a closed match: an unlisted tag is an error
Formula_try_from_Closed(data) ==
    AndThen(parse("String", "type", data), LAMBDA type :
        CASE type = "string" -> Variant("String", parse("Option<String>", "string", data))
          [] type = "number" -> Variant("Number", parse("Option<f64>", "number", data))
          [] type = "boolean" -> Variant("Boolean", parse("Option<bool>", "boolean", data))
          [] type = "date" -> Variant("Date", parse("Option<Date>", "date", data))
          [] OTHER -> Err(NoSuchProperty(type)))

\* impl TryFrom<Value> for Formula
Formula_try_from(data) ==
    AndThen(parse("String", "type", data), LAMBDA type :
        CASE type = "string" -> Variant("String", parse("Option<String>", "string", data))
          [] type = "number" -> Variant("Number", parse("Option<f64>", "number", data))
          [] type = "boolean" -> Variant("Boolean", parse("Option<bool>", "boolean", data))
          [] type = "date" -> Variant("Date", parse("Option<Date>", "date", data))
          [] OTHER -> Ok(Unsupported(type, data)))

\* impl TryFrom<Value> for Select
Select_try_from(data) == Variant("Select", from_value("Option<SelectOption>", data))

\* impl TryFrom<Value> for MultiSelect
MultiSelect_try_from(data) ==
    IF IsArr(data) THEN Variant("MultiSelect", from_value("Vec<SelectOption>", data))
    ELSE IF IsObj(data)
    THEN Variant("MultiSelect", parse("Vec<SelectOption>", "options", data))
    ELSE Ok([variant |-> "MultiSelect", value |-> <<>>])

\* Text { content, link, plain_text, href, annotations } read from the span
\* data and its `text` object
Text_new(data, text) ==
    Fields(<< parse("String", "content", text),
              IF Value_get(text, "link") # None /\ IsStr(Value_get(text, "link")[1])
              THEN OkSome(parse("Link", "link", text))
              ELSE Ok(None),
              parse("String", "plain_text", data),
              IF Value_get(text, "href") # None /\ IsStr(Value_get(text, "href")[1])
              THEN OkSome(parse("String", "href", data))
              ELSE Ok(None),
              parse("Annotations", "annotations", data) >>,
           LAMBDA rs : Ok([content |-> rs[1].val, link |-> rs[2].val,
                           plain_text |-> rs[3].val, href |-> rs[4].val,
                           annotations |-> rs[5].val]))

\* impl TryFrom<Value> for Text
Text_try_from(data) ==
    IF Value_get(data, "text") = None THEN Err(NoSuchProperty("text"))
    ELSE Text_new(data, Value_get(data, "text")[1])

\* the match on the `type` of the `mention` object; raw is what Unsupported keeps
Mention_match(mention, raw) ==
    AndThen(parse("String", "type", mention), LAMBDA type :
        CASE type = "user" -> Variant("User", parse("User", "user", mention))
          [] type = "page" -> Variant("Page", parse("PartialPage", "page", mention))
          [] type = "date" -> Variant("Date", parse("Date", "date", mention))
          [] type = "database" ->
                Variant("Database", parse("PartialDatabase", "database", mention))
          [] type = "link_preview" ->
                Variant("LinkPreview", parse("LinkPreview", "link_preview", mention))
          [] OTHER -> Ok(Unsupported(type, raw)))

\* Mention::try_from keeping only the `mention` object in Unsupported
Mention_try_from_KeepInner(data) ==
    IF Value_get(data, "mention") = None THEN Err(NoSuchProperty("mention"))
    ELSE Mention_match(Value_get(data, "mention")[1], Value_get(data, "mention")[1])

\* impl TryFrom<Value> for Mention
Mention_try_from(data) ==
    IF Value_get(data, "mention") = None THEN Err(NoSuchProperty("mention"))
    ELSE Mention_match(Value_get(data, "mention")[1], data)

\* a RichText variant: the payload and the span's plain text
RichTextVariant(name, r, plain_text) ==
    AndThen(r, LAMBDA x : Ok([variant |-> name, value |-> x, plain_text |-> plain_text]))

\* data.get("plain_text") as a string, "" otherwise (kept beside the variant)
RichText_plain_text(data) ==
    IF Value_get(data, "plain_text") # None /\ IsStr(Value_get(data, "plain_text")[1])
    THEN Value_get(data, "plain_text")[1][2]
    ELSE ""

\* impl TryFrom<Value> for RichText
RichText_try_from(data) ==
    AndThen(parse("String", "type", data), LAMBDA type :
        CASE type = "text" ->
                RichTextVariant("Text", from_value("Text", data), RichText_plain_text(data))
          [] type = "mention" ->
                RichTextVariant("Mention", from_value("Mention", data),
                                RichText_plain_text(data))
          [] type = "equation" ->
                RichTextVariant("Equation", from_value("Equation", data),
                                RichText_plain_text(data))
          [] OTHER -> Ok(Unsupported(type, data)))

\* PartialPage { id: parse(type, &data)? } and its siblings
Parent_by_id(name, type, data) ==
    AndThen(parse("String", type, data),
            LAMBDA id : Ok([variant |-> name, value |-> [id |-> id]]))

\* impl TryFrom<Value> for Parent
Parent_try_from(data) ==
    AndThen(parse("String", "type", data), LAMBDA type :
        CASE type = "page_id" -> Parent_by_id("Page", type, data)
          [] type = "database_id" -> Parent_by_id("Database", type, data)
          [] type = "block_id" -> Parent_by_id("Block", type, data)
          [] type = "workspace" -> Variant("Workspace", parse("bool", "workspace", data))
          [] OTHER -> Ok(Unsupported(type, data)))

\* File::Notion(parse("url", file)?, parse("expiry_time", file)?)
File_Notion(file) ==
    Fields(<< parse("String", "url", file), parse("DateValue", "expiry_time", file) >>,
           LAMBDA rs : Ok([variant |-> "Notion", url |-> rs[1].val,
                           expiry_time |-> rs[2].val]))

\* File::External(parse("url", external)?)
File_External(external) ==
    AndThen(parse("String", "url", external),
            LAMBDA url : Ok([variant |-> "External", url |-> url]))

\* impl TryFrom<Value> for File
File_try_from(data) ==
    AndThen(parse("String", "type", data), LAMBDA type :
        CASE type = "file" ->
                IF Value_get(data, "file") = None THEN Err(NoSuchProperty("file"))
                ELSE File_Notion(Value_get(data, "file")[1])
          [] type = "external" ->
                IF Value_get(data, "external") = None THEN Err(NoSuchProperty("file"))
                ELSE File_External(Value_get(data, "external")[1])
          [] OTHER -> Ok(Unsupported(type, data)))

\* impl TryFrom<Value> for Icon
Icon_try_from(data) ==
    AndThen(parse("String", "type", data), LAMBDA type :
        CASE type = "file" -> Variant("File", from_value("File", data))
          [] type = "emoji" -> Variant("Emoji", parse("String", "emoji", data))
          [] OTHER -> Ok(Unsupported(type, data)))

\* the leading fields of Property and DatabaseProperty: id and next_url
Property_id(data) ==
    IF Value_get(data, "id") = None THEN Err(NoSuchProperty("id"))
    ELSE IF ~IsStr(Value_get(data, "id")[1]) THEN Panic("id.as_str().unwrap()")
    ELSE Ok(Value_get(data, "id")[1][2])

Property_next_url(data) ==
    IF Value_get(data, "next_url") = None THEN Ok(None)
    ELSE IF ~IsStr(Value_get(data, "next_url")[1]) THEN Err(NoSuchProperty("next_url"))
    ELSE Ok(Some(Value_get(data, "next_url")[1][2]))

\* the match on `type` of impl TryFrom<Value> for Property
PropertyType_match(data) ==
    AndThen(parse("String", "type", data), LAMBDA type :
        CASE type = "title" -> Variant("Title", parse("Vec<RichText>", "title", data))
          [] type = "rich_text" ->
                Variant("RichText", parse("Vec<RichText>", "rich_text", data))
          [] type = "date" -> Variant("Date", parse("Option<Date>", "date", data))
          [] type = "multi_select" ->
                Variant("MultiSelect", parse("MultiSelect", "multi_select", data))
          [] type = "select" -> Variant("Select", parse("Select", "select", data))
          [] type = "formula" -> Variant("Formula", parse("Formula", "formula", data))
          [] type = "checkbox" -> Variant("Checkbox", parse("bool", "checkbox", data))
          [] OTHER -> Ok(Unsupported(type, data)))

\* impl TryFrom<Value> for Property
Property_try_from(data) ==
    Fields(<< Property_id(data), Property_next_url(data), PropertyType_match(data) >>,
           LAMBDA rs : Ok([id |-> rs[1].val, next_url |-> rs[2].val,
                           value |-> rs[3].val]))

\* parse::<Vec<SelectOption>>("options", &data.get(key).unwrap())
DatabaseProperty_options(name, key, data) ==
    IF Value_get(data, key) = None THEN Panic("data.get(key).unwrap()")
    ELSE Variant(name, parse("Vec<SelectOption>", "options", Value_get(data, key)[1]))

UnitVariant(name) == Ok([variant |-> name, value |-> None])

\* the match on `type` of impl TryFrom<Value> for DatabaseProperty
DatabasePropertyType_match(data) ==
    AndThen(parse("String", "type", data), LAMBDA type :
        CASE type = "title" -> UnitVariant("Title")
          [] type = "rich_text" -> UnitVariant("RichText")
          [] type \in {"date", "created_time", "last_edited_time"} -> UnitVariant("Date")
          [] type = "multi_select" ->
                DatabaseProperty_options("MultiSelect", "multi_select", data)
          [] type = "select" -> DatabaseProperty_options("Select", "select", data)
          [] type = "formula" ->
                Variant("Formula", parse("DatabaseFormula", "formula", data))
          [] type = "checkbox" -> UnitVariant("Checkbox")
          [] type = "number" -> UnitVariant("Number")
          [] OTHER -> Ok(Unsupported(type, data)))

\* impl TryFrom<Value> for DatabaseProperty
DatabaseProperty_try_from(data) ==
    Fields(<< Property_id(data), Property_next_url(data),
              parse("String", "name", data), DatabasePropertyType_match(data) >>,
           LAMBDA rs : Ok([id |-> rs[1].val, next_url |-> rs[2].val,
                           name |-> rs[3].val, kind |-> rs[4].val]))

(***************************************************************************)
(* Properties / DatabaseProperties: the maps by name and by id             *)
(***************************************************************************)
\* every key used in a property object, in the order serde_json's map
\* iterates (ascending byte order)
SortedKeys == <<"Done", "Name", "Status", "Tags", "abc", "title", "xyz">>

ObjectKeys(data) == SelectSeq(SortedKeys, LAMBDA k : k \in DOMAIN data[2])

EmptyMap == <<>>

\* HashMap::insert
Insert(map, key, value) == (key :> value) @@ map

\* the loop over the object's entries, filling both maps
RECURSIVE PropertiesLoop(_, _, _, _, _, _)
PropertiesLoop(ty, data, keys, i, map, id_map) ==
    IF i > Len(keys) THEN Ok([map |-> map, id_map |-> id_map])
    ELSE AndThen(parse(ty, keys[i], data), LAMBDA property :
             PropertiesLoop(ty, data, keys, i + 1,
                            Insert(map, keys[i], property),
                            Insert(id_map, property.id, property)))

\* impl TryFrom<Value> for Properties
Properties_try_from(data) ==
    IF ~IsObj(data) THEN Panic("data.as_object().unwrap()")
    ELSE PropertiesLoop("Property", data, ObjectKeys(data), 1, EmptyMap, EmptyMap)

\* impl TryFrom<Value> for DatabaseProperties
DatabaseProperties_try_from(data) ==
    IF ~IsObj(data) THEN Panic("data.as_object().unwrap()")
    ELSE PropertiesLoop("DatabaseProperty", data, ObjectKeys(data), 1, EmptyMap, EmptyMap)

\* Properties::get / DatabaseProperties::get: self.map.get(key).or(self.id_map.get(key))
Properties_get(self, key) ==
    IF key \in DOMAIN self.map THEN Some(self.map[key])
    ELSE IF key \in DOMAIN self.id_map THEN Some(self.id_map[key])
    ELSE None

(***************************************************************************)
(* Block                                                                   *)
(***************************************************************************)
\* the match on `type` of impl TryFrom<Value> for Block (lib.rs 359-377)
BlockType_match(data) ==
    AndThen(parse("String", "type", data), LAMBDA type :
        CASE type = "heading_1" -> Variant("Heading1", parse("Heading", "heading_1", data))
          [] type = "heading_2" -> Variant("Heading2", parse("Heading", "heading_2", data))
          [] type = "heading_3" -> Variant("Heading3", parse("Heading", "heading_3", data))
          [] type = "paragraph" ->
                Variant("Paragraph", parse("Paragraph", "paragraph", data))
          [] type = "child_database" ->
                Variant("ChildDatabase", parse("ChildDatabase", "child_database", data))
          [] type = "child_page" ->
                Variant("ChildPage", parse("ChildPage", "child_page", data))
          [] type = "code" -> Variant("Code", parse("Code", "code", data))
          [] type = "bulleted_list_item" ->
                Variant("BulletedListItem", parse("ListItem", "bulleted_list_item", data))
          [] type = "numbered_list_item" ->
                Variant("NumberedListItem", parse("ListItem", "numbered_list_item", data))
          [] type = "quote" -> Variant("Quote", parse("Quote", "quote", data))
          [] type = "callout" -> Variant("Callout", parse("Callout", "callout", data))
          [] type = "to_do" -> Variant("ToDo", parse("ToDoItem", "to_do", data))
          [] type = "image" -> Variant("Image", from_value("Image", data))
          [] type = "column_list" ->
                Variant("ColumnList", parse("ColumnList", "column_list", data))
          [] type = "column" -> Variant("Column", parse("Column", "column", data))
          [] OTHER -> Ok(Unsupported(type, data)))

\* the fields of a Block in the order Block::try_from reads them
Block_fields(data) ==
    << parse("String", "id", data),
       parse("Parent", "parent", data),
       parse("DateValue", "created_time", data),
       parse("DateValue", "last_edited_time", data),
       parse("PartialUser", "created_by", data),
       parse("PartialUser", "last_edited_by", data),
       parse("bool", "has_children", data),
       parse("bool", "archived", data),
       BlockType_match(data) >>

\* Block { id, parent, ..., value }
Block_new(rs) ==
    [id |-> rs[1].val, parent |-> rs[2].val, created_time |-> rs[3].val,
     last_edited_time |-> rs[4].val, created_by |-> rs[5].val,
     last_edited_by |-> rs[6].val, has_children |-> rs[7].val,
     archived |-> rs[8].val, value |-> rs[9].val]

\* Block::try_from refusing a block that announces children it does not carry
Block_try_from_RequireChildren(data) ==
    Fields(Block_fields(data), LAMBDA rs :
        IF /\ rs[7].val
           /\ rs[9].val.variant # "Unsupported"
           /\ "children" \in DOMAIN rs[9].val.value
           /\ rs[9].val.value.children = None
        THEN Err(NoSuchProperty("children"))
        ELSE Ok(Block_new(rs)))

\* impl TryFrom<Value> for Block (lib.rs 345-381)
Block_try_from(data) == Fields(Block_fields(data), LAMBDA rs : Ok(Block_new(rs)))

(***************************************************************************)
(* Date strings given to the decoder.  Each is assembled from parts, and   *)
(* `truth` records the parts it was assembled from: which shape it has and *)
(* whether the parts denote a real calendar date / time / offset.          *)
(***************************************************************************)
GenYears ==
    { [txt |-> "0000", n |-> 0, leap |-> TRUE],
      [txt |-> "1900", n |-> 1900, leap |-> FALSE],
      [txt |-> "2023", n |-> 2023, leap |-> FALSE],
      [txt |-> "2024", n |-> 2024, leap |-> TRUE],
      [txt |-> "9999", n |-> 9999, leap |-> FALSE] }

GenMonths ==
    { [txt |-> "00", n |-> 0, ok |-> FALSE],
      [txt |-> "01", n |-> 1, ok |-> TRUE],
      [txt |-> "02", n |-> 2, ok |-> TRUE],
      [txt |-> "04", n |-> 4, ok |-> TRUE],
      [txt |-> "12", n |-> 12, ok |-> TRUE],
      [txt |-> "13", n |-> 13, ok |-> FALSE] }

GenDays ==
    { [txt |-> "00", n |-> 0, ok |-> FALSE],
      [txt |-> "01", n |-> 1, ok |-> TRUE],
      [txt |-> "28", n |-> 28, ok |-> TRUE],
      [txt |-> "29", n |-> 29, ok |-> TRUE],
      [txt |-> "30", n |-> 30, ok |-> TRUE],
      [txt |-> "31", n |-> 31, ok |-> TRUE],
      [txt |-> "32", n |-> 32, ok |-> FALSE] }

\* the calendar, as a table: which (year, month, day) parts are a real date
RealDate(y, m, d) ==
    /\ m.ok /\ d.ok
    /\ ~(m.txt = "02" /\ d.txt \in {"30", "31"})
    /\ ~(m.txt = "02" /\ d.txt = "29" /\ ~y.leap)
    /\ ~(m.txt = "04" /\ d.txt = "31")

GenTimes ==
    { [txt |-> "00:00:00", secs |-> 0, leap |-> FALSE, ok |-> TRUE],
      [txt |-> "12:30:15", secs |-> 45015, leap |-> FALSE, ok |-> TRUE],
      [txt |-> "23:59:59", secs |-> 86399, leap |-> FALSE, ok |-> TRUE],
      [txt |-> "23:59:60", secs |-> 86400, leap |-> TRUE, ok |-> TRUE],
      [txt |-> "24:00:00", secs |-> 0, leap |-> FALSE, ok |-> FALSE] }

\* digits: the fraction without trailing zeros
GenFractions ==
    { [txt |-> "", digits |-> "", ok |-> TRUE],
      [txt |-> ".50", digits |-> "5", ok |-> TRUE],
      [txt |-> ".123456", digits |-> "123456", ok |-> TRUE],
      [txt |-> ".1234567891", digits |-> "1234567891", ok |-> TRUE],
      [txt |-> ".", digits |-> "", ok |-> FALSE] }

GenOffsets ==
    { [txt |-> "Z", secs |-> 0, ok |-> TRUE],
      [txt |-> "z", secs |-> 0, ok |-> TRUE],
      [txt |-> "+00:00", secs |-> 0, ok |-> TRUE],
      [txt |-> "+05:30", secs |-> 19800, ok |-> TRUE],
      [txt |-> "-08:00", secs |-> 0 - 28800, ok |-> TRUE],
      [txt |-> "+23:59", secs |-> 86340, ok |-> TRUE],
      [txt |-> "-23:59", secs |-> 0 - 86340, ok |-> TRUE],
      [txt |-> "+24:00", secs |-> 0, ok |-> FALSE],
      [txt |-> "+0530", secs |-> 0, ok |-> FALSE],
      [txt |-> "", secs |-> 0, ok |-> FALSE] }

GenSeparators ==
    { [txt |-> "T", ok |-> TRUE], [txt |-> "t", ok |-> TRUE], [txt |-> "_", ok |-> FALSE] }

\* the dates used in full timestamps
StampDate(y, m, d) ==
    \/ y.txt = "0000" /\ m.txt = "01" /\ d.txt = "01"
    \/ y.txt = "1900" /\ m.txt = "02" /\ d.txt = "29"
    \/ y.txt = "2023" /\ m.txt = "12" /\ d.txt = "31"
    \/ y.txt = "2024" /\ m.txt = "02" /\ d.txt = "29"
    \/ y.txt = "2024" /\ m.txt = "04" /\ d.txt = "30"
    \/ y.txt = "2023" /\ m.txt = "13" /\ d.txt = "01"
    \/ y.txt = "9999" /\ m.txt = "12" /\ d.txt = "31"

\* strings of neither shape, and strings that only the regex takes for a date
GenOther ==
    { [txt |-> "", pattern |-> FALSE],
      [txt |-> "nope", pattern |-> FALSE],
      [txt |-> "2023-1-1", pattern |-> FALSE],
      [txt |-> "20230101", pattern |-> FALSE],
      [txt |-> "2023/01/01", pattern |-> FALSE],
      [txt |-> "2023-01-01 ", pattern |-> FALSE],
      [txt |-> " 2023-01-01", pattern |-> FALSE],
      [txt |-> "2023-01-01\n", pattern |-> FALSE],
      [txt |-> "2023-01-01T10:00Z", pattern |-> FALSE],
      [txt |-> "2023-01-01T10:00:00Zjunk", pattern |-> FALSE],
      [txt |-> "202~-01-01T10:00:00Z", pattern |-> FALSE],
      [txt |-> "202~-01-01", pattern |-> TRUE],
      [txt |-> "~~~~-~~-~~", pattern |-> TRUE] }

NoTruth == [class |-> "none"]

BareTruth(y, m, d) ==
    [class |-> "bare", pattern |-> TRUE, rfc3339 |-> FALSE, real |-> RealDate(y, m, d),
     y |-> y.n, m |-> m.n, d |-> d.n, secs |-> 0, leap |-> FALSE,
     offset |-> 0, digits |-> ""]

StampTruth(y, m, d, sep, t, f, o) ==
    [class |-> "stamp", pattern |-> FALSE,
     rfc3339 |-> RealDate(y, m, d) /\ sep.ok /\ t.ok /\ f.ok /\ o.ok,
     real |-> RealDate(y, m, d),
     y |-> y.n, m |-> m.n, d |-> d.n, secs |-> t.secs, leap |-> t.leap,
     offset |-> o.secs, digits |-> f.digits]

OtherTruth(g) ==
    [class |-> "other", pattern |-> g.pattern, rfc3339 |-> FALSE, real |-> FALSE,
     y |-> 0, m |-> 0, d |-> 0, secs |-> 0, leap |-> FALSE, offset |-> 0, digits |-> ""]

(***************************************************************************)
(* JSON fragments given to the tagged-union decoders.  An input is built   *)
(* from: the entity, how its discriminator is set, how the payload of the  *)
(* named variant is set, and how the entity's other fields are set.        *)
(***************************************************************************)
Entities ==
    { "Block", "Property", "DatabaseProperty", "RichText", "Mention", "Parent",
      "File", "Icon", "Formula" }

\* the tags each decoder's match lists
KnownTags(e) ==
    CASE e = "Block" ->
            { "heading_1", "heading_2", "heading_3", "paragraph", "child_database",
              "child_page", "code", "bulleted_list_item", "numbered_list_item",
              "quote", "callout", "to_do", "image", "column_list", "column" }
      [] e = "Property" ->
            { "title", "rich_text", "date", "multi_select", "select", "formula",
              "checkbox" }
      [] e = "DatabaseProperty" ->
            { "title", "rich_text", "date", "created_time", "last_edited_time",
              "multi_select", "select", "formula", "checkbox", "number" }
      [] e = "RichText" -> { "text", "mention", "equation" }
      [] e = "Mention" -> { "user", "page", "date", "database", "link_preview" }
      [] e = "Parent" -> { "page_id", "database_id", "block_id", "workspace" }
      [] e = "File" -> { "file", "external" }
      [] e = "Icon" -> { "file", "emoji" }
      [] e = "Formula" -> { "string", "number", "boolean", "date" }

\* tags of the upstream API that the decoder's match does not list, and
\* strings that are no tag at all
OtherTags(e) ==
    { "weird_new_block", "", "Type" } \cup
    ( CASE e = "Block" -> { "file", "video", "pdf", "divider", "Paragraph" }
        [] e = "Property" -> { "number", "url" }
        [] e = "DatabaseProperty" -> { "url", "people" }
        [] e = "RichText" -> { "Text" }
        [] e = "Mention" -> { "template_mention" }
        [] e = "Parent" -> { "page" }
        [] e = "File" -> { "file_upload" }
        [] e = "Icon" -> { "external", "custom_emoji" }
        [] e = "Formula" -> { "array" } )

\* how the discriminator is set
Discriminators(e) ==
    { [state |-> "string", tag |-> t, json |-> JStr(t)] : t \in KnownTags(e) \cup OtherTags(e) }
    \cup { [state |-> "absent", tag |-> "", json |-> JNull],
           [state |-> "nonstring", tag |-> "", json |-> JNull],
           [state |-> "nonstring", tag |-> "", json |-> JNum(7)],
           [state |-> "nonstring", tag |-> "", json |-> JBool(TRUE)],
           [state |-> "nonstring", tag |-> "", json |-> JArr(<<JStr("text")>>)],
           [state |-> "nonstring", tag |-> "", json |-> JObj([type |-> JStr("text")])] }

PayloadModes == { "good", "null", "bad", "absent" }

J_Annotations ==
    JObj([bold |-> JBool(FALSE), italic |-> JBool(TRUE), strikethrough |-> JBool(FALSE),
          underline |-> JBool(FALSE), code |-> JBool(FALSE), color |-> JStr("default")])

J_Text ==
    JObj([type |-> JStr("text"),
          text |-> JObj([content |-> JStr("hi"), link |-> JNull]),
          plain_text |-> JStr("hi"), href |-> JNull, annotations |-> J_Annotations])

J_Date == JObj([start |-> JStr("2023-01-01"), end |-> JNull, time_zone |-> JNull])

J_SelectOption == JObj([id |-> JStr("1"), name |-> JStr("Done"), color |-> JStr("green")])

J_External == JObj([type |-> JStr("external"), external |-> JObj([url |-> JStr("https://x")])])

J_Hosted == JObj([url |-> JStr("https://f"), expiry_time |-> JStr("2023-01-01T10:00:00.000Z")])

J_Parent == JObj([type |-> JStr("page_id"), page_id |-> JStr("p1")])

J_User == JObj([id |-> JStr("u1")])

J_Formula == JObj([type |-> JStr("number"), number |-> JNum(3)])

J_Plain == JObj([color |-> JStr("default"), rich_text |-> JArr(<<>>)])

\* the fields that carry the payload of variant `tag` of entity e, well-formed
GoodPayload(e, tag) ==
    CASE e = "Formula" /\ tag = "string" -> [string |-> JStr("s")]
      [] e = "Formula" /\ tag = "number" -> [number |-> JNum(3)]
      [] e = "Formula" /\ tag = "boolean" -> [boolean |-> JBool(TRUE)]
      [] e = "Formula" /\ tag = "date" -> [date |-> J_Date]
      [] e = "Parent" /\ tag = "page_id" -> [page_id |-> JStr("p1")]
      [] e = "Parent" /\ tag = "database_id" -> [database_id |-> JStr("d1")]
      [] e = "Parent" /\ tag = "block_id" -> [block_id |-> JStr("b0")]
      [] e = "Parent" /\ tag = "workspace" -> [workspace |-> JBool(TRUE)]
      [] e \in {"File", "Icon"} /\ tag = "file" -> [file |-> J_Hosted]
      [] e = "File" /\ tag = "external" -> [external |-> JObj([url |-> JStr("https://x")])]
      [] e = "Icon" /\ tag = "emoji" -> [emoji |-> JStr(":)")]
      [] e = "Mention" /\ tag = "user" -> [user |-> J_User]
      [] e = "Mention" /\ tag = "page" -> [page |-> JObj([id |-> JStr("p1")])]
      [] e = "Mention" /\ tag = "date" -> [date |-> J_Date]
      [] e = "Mention" /\ tag = "database" -> [database |-> JObj([id |-> JStr("d1")])]
      [] e = "Mention" /\ tag = "link_preview" ->
             [link_preview |-> JObj([url |-> JStr("https://x")])]
      [] e = "RichText" /\ tag = "text" ->
             [text |-> JObj([content |-> JStr("hi"), link |-> JNull]),
              plain_text |-> JStr("hi"), href |-> JNull, annotations |-> J_Annotations]
      [] e = "RichText" /\ tag = "mention" ->
             [mention |-> JObj([type |-> JStr("user"), user |-> J_User]),
              plain_text |-> JStr("@u")]
      [] e = "RichText" /\ tag = "equation" -> [plain_text |-> JStr("e=mc2")]
      [] e = "Property" /\ tag = "title" -> [title |-> JArr(<<J_Text>>)]
      [] e = "Property" /\ tag = "rich_text" -> [rich_text |-> JArr(<<>>)]
      [] e = "Property" /\ tag = "date" -> [date |-> J_Date]
      [] e = "Property" /\ tag = "multi_select" -> [multi_select |-> JArr(<<J_SelectOption>>)]
      [] e = "Property" /\ tag = "select" -> [select |-> J_SelectOption]
      [] e = "Property" /\ tag = "formula" -> [formula |-> J_Formula]
      [] e = "Property" /\ tag = "checkbox" -> [checkbox |-> JBool(TRUE)]
      [] e = "DatabaseProperty" /\ tag = "multi_select" ->
             [multi_select |-> JObj([options |-> JArr(<<J_SelectOption>>)])]
      [] e = "DatabaseProperty" /\ tag = "select" ->
             [select |-> JObj([options |-> JArr(<<>>)])]
      [] e = "DatabaseProperty" /\ tag = "formula" ->
             [formula |-> JObj([expression |-> JStr("1+1")])]
      [] e = "Block" /\ tag \in {"heading_1", "heading_2", "heading_3"} ->
             (tag :> JObj([color |-> JStr("default"), rich_text |-> JArr(<<>>),
                           is_toggleable |-> JBool(FALSE)]))
      [] e = "Block" /\ tag = "paragraph" ->
             [paragraph |-> JObj([color |-> JStr("blue"), rich_text |-> JArr(<<J_Text>>)])]
      [] e = "Block" /\ tag \in {"child_page", "child_database"} ->
             (tag :> JObj([title |-> JStr("t")]))
      [] e = "Block" /\ tag = "code" ->
             [code |-> JObj([language |-> JStr("rust"), caption |-> JArr(<<>>),
                             rich_text |-> JArr(<<>>)])]
      [] e = "Block" /\ tag \in {"bulleted_list_item", "numbered_list_item", "quote"} ->
             (tag :> J_Plain)
      [] e = "Block" /\ tag = "callout" ->
             [callout |-> JObj([icon |-> JObj([type |-> JStr("emoji"), emoji |-> JStr(":)")]),
                                color |-> JStr("default"), rich_text |-> JArr(<<>>)])]
      [] e = "Block" /\ tag = "to_do" ->
             [to_do |-> JObj([color |-> JStr("default"), rich_text |-> JArr(<<>>),
                              checked |-> JBool(TRUE)])]
      [] e = "Block" /\ tag = "image" -> [image |-> J_External]
      [] e = "Block" /\ tag \in {"column_list", "column"} -> (tag :> JObj(NoFields))
      [] e = "Block" /\ tag = "file" ->
             [file |-> JObj([type |-> JStr("external"),
                             external |-> JObj([url |-> JStr("https://x")]),
                             caption |-> JArr(<<>>)])]
      [] e = "Block" /\ tag \in {"video", "pdf"} -> (tag :> J_External)
      [] tag = "" -> NoFields
      [] OTHER -> (tag :> JObj([foo |-> JNum(1)]))

\* the payload fields of variant `tag` under a payload mode
Payload(e, tag, mode) ==
    LET good == GoodPayload(e, tag)
    IN  CASE mode = "good" -> good
          [] mode = "null" -> [k \in DOMAIN good |-> JNull]
          [] mode = "bad" -> [k \in DOMAIN good |-> JNum(0)]
          [] mode = "absent" -> NoFields

\* the fields an entity has besides discriminator and payload, well-formed
BaseFields(e) ==
    CASE e = "Block" ->
            [id |-> JStr("b1"), parent |-> J_Parent,
             created_time |-> JStr("2023-01-01T10:00:00.000Z"),
             last_edited_time |-> JStr("2023-01-02T10:00:00.000+01:00"),
             created_by |-> J_User, last_edited_by |-> J_User,
             has_children |-> JBool(FALSE), archived |-> JBool(FALSE)]
      [] e = "Property" -> [id |-> JStr("abc")]
      [] e = "DatabaseProperty" -> [id |-> JStr("abc"), name |-> JStr("Status")]
      [] OTHER -> NoFields

\* ways the other fields are set: ok tells whether they are still well-formed
Damages(e) ==
    { [name |-> "none", ok |-> TRUE], [name |-> "extra_field", ok |-> TRUE] }
    \cup
    ( CASE e = "Block" ->
             { [name |-> "no_id", ok |-> FALSE],
               [name |-> "id_number", ok |-> FALSE],
               [name |-> "parent_of_unknown_type", ok |-> TRUE],
               [name |-> "parent_without_type", ok |-> FALSE],
               [name |-> "created_time_bare_date", ok |-> TRUE],
               [name |-> "created_time_not_a_date", ok |-> FALSE],
               [name |-> "has_children_true", ok |-> TRUE],
               [name |-> "has_children_string", ok |-> FALSE],
               [name |-> "no_archived", ok |-> FALSE] }
        [] e \in {"Property", "DatabaseProperty"} ->
             { [name |-> "no_id", ok |-> FALSE],
               [name |-> "id_number", ok |-> FALSE],
               [name |-> "next_url_string", ok |-> TRUE],
               [name |-> "next_url_null", ok |-> FALSE] }
             \cup (IF e = "DatabaseProperty"
                   THEN { [name |-> "no_name", ok |-> FALSE],
                          [name |-> "name_number", ok |-> FALSE] }
                   ELSE {})
        [] e = "Mention" -> { [name |-> "no_mention", ok |-> FALSE] }
        [] OTHER -> {} )

Damaged(obj, damage) ==
    CASE damage = "none" -> obj
      [] damage = "extra_field" -> With(obj, "request_id", JStr("r1"))
      [] damage = "no_id" -> Without(obj, "id")
      [] damage = "id_number" -> With(obj, "id", JNum(5))
      [] damage = "parent_of_unknown_type" ->
             With(obj, "parent", JObj([type |-> JStr("team_id"), team_id |-> JStr("t")]))
      [] damage = "parent_without_type" -> With(obj, "parent", JObj([page_id |-> JStr("p1")]))
      [] damage = "created_time_bare_date" -> With(obj, "created_time", JStr("2023-01-01"))
      [] damage = "created_time_not_a_date" -> With(obj, "created_time", JStr("yesterday"))
      [] damage = "has_children_true" -> With(obj, "has_children", JBool(TRUE))
      [] damage = "has_children_string" -> With(obj, "has_children", JStr("true"))
      [] damage = "no_archived" -> Without(obj, "archived")
      [] damage = "next_url_string" -> With(obj, "next_url", JStr("https://n"))
      [] damage = "next_url_null" -> With(obj, "next_url", JNull)
      [] damage = "no_mention" -> Without(obj, "mention")
      [] damage = "no_name" -> Without(obj, "name")
      [] damage = "name_number" -> With(obj, "name", JNum(1))

\* the discriminator and payload fields, where the decoder looks for them
Tagged(disc, payload) ==
    IF disc.state = "absent" THEN payload ELSE ("type" :> disc.json) @@ payload

\* the JSON object for entity e.  Mention reads its discriminator and its
\* payload inside the `mention` field of the span it is given.
BuildEntity(e, disc, mode, damage) ==
    LET payload == Payload(e, disc.tag, mode)
    IN  IF e = "Mention"
        THEN Damaged(JObj([type |-> JStr("mention"), plain_text |-> JStr("@"),
                           mention |-> JObj(Tagged(disc, payload))]), damage)
        ELSE Damaged(JObj(Tagged(disc, payload) @@ BaseFields(e)), damage)

EntityTruth(e, disc, mode, damage) ==
    [class |-> "entity", object |-> TRUE, disc |-> disc.state, tag |-> disc.tag,
     known |-> disc.state = "string" /\ disc.tag \in KnownTags(e),
     mode |-> mode, damage |-> damage.name, base_ok |-> damage.ok]

\* values that are no JSON object at all
NonObjects == { JNull, JStr("text"), JNum(1), JArr(<<>>), JArr(<<JStr("type")>>) }

NonObjectTruth ==
    [class |-> "entity", object |-> FALSE, disc |-> "absent", tag |-> "",
     known |-> FALSE, mode |-> "absent", damage |-> "none", base_ok |-> FALSE]

(***************************************************************************)
(* The transport layer: ClientBuilder, the Client and its handles, and the *)
(* four operations that send a request through the execution hook          *)
(* (request_handler) and classify the response.                            *)
(***************************************************************************)
\* the largest number of operations in flight at the same time
MaxCalls == 2

Slots == 1..MaxCalls

NOTION_VERSION == "2022-06-28"

\* the keys given to ClientBuilder::api_key; the second is no valid header
ApiKeys == { "secret", "two\nlines" }

\* HeaderValue::from_str: a header value holds no line break
HeaderValue_from_str(string) ==
    IF \A i \in 1..Len(string) : Ch(string, i) # "\n" THEN Ok(string)
    ELSE Err("InvalidHeaderValue")

\* fn get_http_client: the reqwest client, that is, its default headers
get_http_client(notion_api_key) ==
    IF IsErr(HeaderValue_from_str("Bearer " \o notion_api_key))
    THEN Panic("bearer token to be parsed into a header")
    ELSE Ok([Authorization |-> "Bearer " \o notion_api_key,
             Notion_Version |-> NOTION_VERSION,
             Content_Type |-> "application/json"])

\* ClientBuilder::default()
ClientBuilder_default == [api_key |-> None, custom_request |-> None, state |-> "new"]

\* the hook build() installs when custom_request was not called, and the
\* hook a caller passes to custom_request
DefaultHandler == "try_clone + send"
CustomHandler == "custom_request"

\* the addresses of the two objects build() puts behind an Arc
HttpClientAddr == 1
RequestHandlerAddr == 2

\* the two Arc fields every handle has
Handle(http_client, request_handler) ==
    [http_client |-> http_client, request_handler |-> request_handler]

\* a copy that mixes up the two Arcs
Handle_clone_Swapped(handle) == Handle(handle.request_handler, handle.http_client)

\* Arc::clone of both fields
Handle_clone(handle) == Handle(handle.http_client, handle.request_handler)

HandleNames == { "client", "pages", "blocks", "databases", "children" }

NoHandles == [h \in HandleNames |-> None]

\* what build() returns: Client { .., pages, blocks, databases }
Client_handles(http_client, request_handler) ==
    [h \in HandleNames |->
        IF h = "children" THEN None
        ELSE Some(Handle_clone(Handle(http_client, request_handler)))]

Operations == { "search", "retrieve", "list", "query" }

NoCall ==
    [pc |-> "idle", op |-> "", request |-> None, hook |-> None,
     requests |-> 0, hooks |-> 0, response |-> None, result |-> None]

\* a request built from the client's default headers
Request(http_client, method, url, body) ==
    [method |-> method, url |-> url, headers |-> http_client, json |-> body]

\* a reqwest::Error: the hook failed ("request"), the status is a failure
\* ("status"), the body could not be read ("body") or is not the JSON asked
\* for ("decode")
ReqwestError(kind, status) == [kind |-> kind, status |-> status]

\* Error::Http(reqwest::Error, Option<Value>)
Http(error, body) == [kind |-> "Http", error |-> error, frag |-> body]

\* impl From<reqwest::Error> for Error
From_reqwest_Error(error) == Http(error, None)

Statuses == { 200, 404 }

\* Response::error_for_status_ref: a 4xx or 5xx status is an error
error_for_status_ref(status) ==
    IF status >= 400 /\ status < 600 THEN Err(ReqwestError("status", Some(status)))
    ELSE Ok(status)

\* a response body: whether it can be read, and the JSON it holds if it is
\* JSON text
Body(readable, json) == [readable |-> readable, json |-> json]

J_Page ==
    JObj([object |-> JStr("page"), id |-> JStr("p1"), created_by |-> J_User,
          url |-> JStr("https://www.notion.so/p1"), parent |-> J_Parent,
          created_time |-> JStr("2023-01-01T10:00:00.000Z"),
          last_edited_time |-> JStr("2023-01-02T10:00:00.000Z"),
          cover |-> JNull, icon |-> JNull,
          properties |-> JObj([Name |-> JObj([id |-> JStr("abc"),
                                              type |-> JStr("checkbox"),
                                              checkbox |-> JBool(TRUE)])]),
          archived |-> JBool(FALSE)])

J_List(results) ==
    JObj([object |-> JStr("list"), results |-> JArr(results),
          has_more |-> JBool(FALSE), next_cursor |-> JNull])

\* the body the API sends with a failure status
J_Error ==
    JObj([object |-> JStr("error"), status |-> JNum(404),
          code |-> JStr("object_not_found"), message |-> JStr("not found")])

\* the type each operation decodes a success body into (search::<Page>)
EntityType(op) ==
    CASE op = "retrieve" -> "Page"
      [] op = "list" -> "QueryResponse<Block>"
      [] op \in {"query", "search"} -> "QueryResponse<Page>"

\* a body that decodes into the operation's type
J_Entity(op) ==
    CASE op = "retrieve" -> J_Page
      [] op = "list" ->
            J_List(<<JObj([type |-> JStr("paragraph")]
                          @@ GoodPayload("Block", "paragraph")
                          @@ BaseFields("Block"))>>)
      [] op \in {"query", "search"} -> J_List(<<J_Page>>)

\* the bodies the hook's response may carry: an error object, text that is
\* no JSON, a body that cannot be read and, with a success status, the entity
Bodies(op, status) ==
    { Body(TRUE, Some(J_Error)), Body(TRUE, None), Body(FALSE, None) }
        \cup (IF status = 200 THEN { Body(TRUE, Some(J_Entity(op))) } ELSE {})

\* the reqwest decode error of Response::json, turned into Error by `?`
json_decoded(r) ==
    IF IsErr(r) THEN Err(From_reqwest_Error(ReqwestError("decode", None))) ELSE r

\* response.json::<T>().await?
Response_json(ty, body) ==
    IF ~body.readable THEN Err(From_reqwest_Error(ReqwestError("body", None)))
    ELSE IF body.json = None THEN Err(From_reqwest_Error(ReqwestError("decode", None)))
    ELSE json_decoded(De(ty, body.json[1]))

\* async fn try_to_parse_response::<T>(response)
try_to_parse_response(ty, body) ==
    IF ~body.readable THEN Err(From_reqwest_Error(ReqwestError("body", None)))
    ELSE IF body.json = None THEN Err(Deserialization(None))
    ELSE WithFragment(De(ty, body.json[1]), body.json[1])

\* Err(Error::Http(error, Some(body))) once the error body was decoded
status_failure(error, decoded) ==
    AndThen(decoded, LAMBDA body : Err(Http(error, Some(body))))

\* the match on response.error_for_status_ref() of search / retrieve / list
classify_json(op, status, body) ==
    IF IsOk(error_for_status_ref(status)) THEN Response_json(EntityType(op), body)
    ELSE status_failure(error_for_status_ref(status).err, Response_json("Value", body))

\* the match on response.error_for_status_ref() of Databases::query
classify_query(op, status, body) ==
    IF IsOk(error_for_status_ref(status))
    THEN try_to_parse_response(EntityType(op), body)
    ELSE status_failure(error_for_status_ref(status).err,
                        try_to_parse_response("Value", body))

\* what an operation returns for the response the hook gave it
Outcome(op, status, body) ==
    IF op = "query" THEN classify_query(op, status, body)
    ELSE classify_json(op, status, body)

(***************************************************************************)
(* The caller                                                              *)
(***************************************************************************)
Init ==
    /\ pc = "idle"
    /\ fn = ""
    /\ arg = None
    /\ truth = NoTruth
    /\ ret = None
    /\ out = None
    /\ builder = ClientBuilder_default
    /\ heap = <<>>
    /\ handles = NoHandles
    /\ calls = [c \in Slots |-> NoCall]

Call(f, a, t, r) ==
    /\ pc' = "done"
    /\ fn' = f
    /\ arg' = a
    /\ truth' = t
    /\ ret' = r
    /\ out' = None
    /\ UNCHANGED transport

\* the caller drops the value and is ready for the next call
Return ==
    /\ pc # "idle"
    /\ pc' = "idle"
    /\ fn' = ""
    /\ arg' = None
    /\ truth' = NoTruth
    /\ ret' = None
    /\ out' = None
    /\ UNCHANGED transport

\* DateValue::try_from(string) on a string of the bare-date shape
DecodeBareDate ==
    /\ pc = "idle"
    /\ \E y \in GenYears, m \in GenMonths, d \in GenDays :
        LET s == y.txt \o "-" \o m.txt \o "-" \o d.txt
        IN  Call("DateValue", s, BareTruth(y, m, d), DateValue_try_from(s))

\* DateValue::try_from(string) on a string of the timestamp shape
DecodeTimestamp ==
    /\ pc = "idle"
    /\ \E y \in GenYears, m \in GenMonths, d \in GenDays, sep \in GenSeparators,
       t \in GenTimes, f \in GenFractions, o \in GenOffsets :
        /\ StampDate(y, m, d)
        /\ LET s == y.txt \o "-" \o m.txt \o "-" \o d.txt \o sep.txt
                         \o t.txt \o f.txt \o o.txt
           IN  Call("DateValue", s, StampTruth(y, m, d, sep, t, f, o),
                    DateValue_try_from(s))

\* DateValue::try_from(string) on any other string
DecodeOtherString ==
    /\ pc = "idle"
    /\ \E g \in GenOther :
        Call("DateValue", g.txt, OtherTruth(g), DateValue_try_from(g.txt))

\* value.to_string() on the decoded DateValue
DateToString ==
    /\ pc = "done"
    /\ fn = "DateValue"
    /\ IsOk(ret)
    /\ pc' = "shown"
    /\ out' = Some(DateValue_to_string(ret.val))
    /\ UNCHANGED <<fn, arg, truth, ret>>
    /\ UNCHANGED transport

\* String::from(value) handed back to DateValue::try_from (the serde pair
\* into = "String" / try_from = "String"), and the result formatted again
Redecoded(string, r) ==
    <<string, r, IF IsOk(r) THEN Some(DateValue_to_string(r.val)) ELSE None>>

DecodeAgain ==
    /\ pc = "shown"
    /\ fn = "DateValue"
    /\ pc' = "again"
    /\ out' = Redecoded(out[1], DateValue_try_from(out[1]))
    /\ UNCHANGED <<fn, arg, truth, ret>>
    /\ UNCHANGED transport

\* the non-objects are tried once per entity, next to the plainest object
OtherInputs(disc, mode, damage) ==
    IF disc.state = "absent" /\ mode = "good" /\ damage.name = "none"
    THEN {None} \cup { Some(v) : v \in NonObjects }
    ELSE {None}

EntityInput(e, disc, mode, damage, other) ==
    IF other = None THEN BuildEntity(e, disc, mode, damage.name) ELSE other[1]

InputTruth(e, disc, mode, damage, other) ==
    IF other = None THEN EntityTruth(e, disc, mode, damage) ELSE NonObjectTruth

\* E::try_from(data) for a tagged-union entity E on a generated fragment
DecodeEntity(e) ==
    /\ pc = "idle"
    /\ \E disc \in Discriminators(e), mode \in PayloadModes, damage \in Damages(e) :
          \E other \in OtherInputs(disc, mode, damage) :
             Call(e, EntityInput(e, disc, mode, damage, other),
                  InputTruth(e, disc, mode, damage, other),
                  TryFrom(e, EntityInput(e, disc, mode, damage, other)))

DecodeBlock == DecodeEntity("Block")
DecodeProperty == DecodeEntity("Property")
DecodeDatabaseProperty == DecodeEntity("DatabaseProperty")
DecodeRichText == DecodeEntity("RichText")
DecodeMention == DecodeEntity("Mention")
DecodeParent == DecodeEntity("Parent")
DecodeFile == DecodeEntity("File")
DecodeIcon == DecodeEntity("Icon")
DecodeFormula == DecodeEntity("Formula")

NextUnion ==
    \/ DecodeBlock
    \/ DecodeProperty
    \/ DecodeDatabaseProperty
    \/ DecodeRichText
    \/ DecodeMention
    \/ DecodeParent
    \/ DecodeFile
    \/ DecodeIcon
    \/ DecodeFormula
    \/ Return

SpecUnion == Init /\ [][NextUnion]_vars

(***************************************************************************)
(* Property objects of a Page / a Database                                 *)
(***************************************************************************)
\* the largest number of properties in a generated property object
MaxProperties == 2

PropertyNames == {"Name", "Status", "abc", "title"}
PropertyIds == {"abc", "xyz", "title", "Status"}
PropertyShapes == {"checkbox", "select", "no_type", "id_number"}

\* one property of a Page (database = FALSE) or of a Database schema
J_Property(name, id, shape, database) ==
    LET base == IF database THEN [id |-> JStr(id), name |-> JStr(name)]
                ELSE [id |-> JStr(id)]
    IN  CASE shape = "checkbox" ->
                 JObj([type |-> JStr("checkbox"), checkbox |-> JBool(TRUE)] @@ base)
          [] shape = "select" ->
                 JObj([type |-> JStr("select"),
                       select |-> IF database THEN JObj([options |-> JArr(<<J_SelectOption>>)])
                                  ELSE J_SelectOption] @@ base)
          [] shape = "no_type" -> JObj(base)
          [] shape = "id_number" ->
                 JObj([id |-> JNum(1), type |-> JStr("checkbox"), checkbox |-> JBool(TRUE)]
                          @@ base)

\* the property objects with the names `names`
PropertyObjects(names, database) ==
    { JObj([n \in names |-> J_Property(n, pick[n][1], pick[n][2], database)]) :
        pick \in [names -> PropertyIds \X PropertyShapes] }

DecodePropertyMap(e, database) ==
    /\ pc = "idle"
    /\ \/ \E names \in SUBSET PropertyNames :
            /\ Cardinality(names) <= MaxProperties
            /\ \E data \in PropertyObjects(names, database) :
                   Call(e, data, NoTruth, TryFrom(e, data))
       \/ \E data \in NonObjects : Call(e, data, NoTruth, TryFrom(e, data))

\* Properties::try_from(data)
DecodeProperties == DecodePropertyMap("Properties", FALSE)

\* DatabaseProperties::try_from(data)
DecodeDatabaseProperties == DecodePropertyMap("DatabaseProperties", TRUE)

\* properties.get(key) on the decoded maps
GetProperty ==
    /\ pc = "done"
    /\ fn \in {"Properties", "DatabaseProperties"}
    /\ IsOk(ret)
    /\ \E key \in PropertyNames \cup PropertyIds \cup {"missing"} :
           out' = Some([key |-> key, found |-> Properties_get(ret.val, key)])
    /\ pc' = "shown"
    /\ UNCHANGED <<fn, arg, truth, ret>>
    /\ UNCHANGED transport

NextProps == DecodeProperties \/ DecodeDatabaseProperties \/ GetProperty \/ Return

SpecProps == Init /\ [][NextProps]_vars

(***************************************************************************)
(* Blocks with inlined children.  The children array sits where the        *)
(* decoder reads it: inside the object named by the block's type.          *)
(***************************************************************************)
\* the longest generated children array
MaxChildren == 2

\* the kinds that the documentation lists as able to hold children
NestingKinds ==
    { "paragraph", "bulleted_list_item", "numbered_list_item", "quote", "callout",
      "to_do", "column", "column_list" }

TreeKinds == NestingKinds \cup { "heading_1", "weird_new_block" }

\* a well-formed block of the given kind and id; children is None (no key)
\* or Some(json) for the value of the `children` key
J_Block(kind, id, has_children, children) ==
    LET payload == GoodPayload("Block", kind)[kind]
        inner == IF children = None THEN payload ELSE With(payload, "children", children[1])
    IN  JObj((kind :> inner) @@ [type |-> JStr(kind), id |-> JStr(id),
                                 has_children |-> JBool(has_children)]
             @@ BaseFields("Block"))

LeafBlocks ==
    { J_Block("heading_1", "c1", FALSE, None),
      J_Block("weird_new_block", "c2", FALSE, None),
      J_Block("paragraph", "c3", TRUE, None) }

\* blocks that hold a child of their own
NestedBlocks ==
    { J_Block(kind, "n", TRUE, Some(JArr(<<c>>))) :
         kind \in {"quote", "column"}, c \in LeafBlocks }

\* the blocks used as children
ChildPool == LeafBlocks \cup NestedBlocks

\* the sequences over S of length at most n
SeqsUpTo(S, n) == UNION { [1..k -> S] : k \in 0..n }

\* what the `children` key of a generated block holds
ChildrenStates == {"list", "null", "absent"}

ChildrenJson(state, list) ==
    CASE state = "list" -> Some(JArr(list))
      [] state = "null" -> Some(JNull)
      [] state = "absent" -> None

TreeTruth(kind, has_children, state, list) ==
    [class |-> "tree", kind |-> kind, has_children |-> has_children,
     children |-> state, list |-> list]

\* Block::try_from(data) on a block with or without inlined children
DecodeBlockTree ==
    /\ pc = "idle"
    /\ \E kind \in TreeKinds, has_children \in BOOLEAN, state \in ChildrenStates :
          \E list \in IF state = "list" THEN SeqsUpTo(ChildPool, MaxChildren) ELSE {<<>>} :
             Call("Block",
                  J_Block(kind, "b1", has_children, ChildrenJson(state, list)),
                  TreeTruth(kind, has_children, state, list),
                  Block_try_from(J_Block(kind, "b1", has_children,
                                         ChildrenJson(state, list))))

NextBlock == DecodeBlock \/ DecodeBlockTree \/ Return

SpecBlock == Init /\ [][NextBlock]_vars

NextDate ==
    DecodeBareDate \/ DecodeTimestamp \/ DecodeOtherString \/ DateToString
        \/ DecodeAgain \/ Return

SpecDate == Init /\ [][NextDate]_vars

(***************************************************************************)
(* The transport operations.  An operation builds its request and calls    *)
(* the hook in one step (there is no await between the two), then waits    *)
(* for the hook's future, then for the body of the response.  Operations   *)
(* in different slots interleave at these awaits.                          *)
(***************************************************************************)
\* ClientBuilder::api_key
ClientBuilder_api_key(api_key) ==
    /\ builder.state = "new"
    /\ builder' = [builder EXCEPT !.api_key = Some(api_key)]
    /\ UNCHANGED <<heap, handles, calls>>
    /\ UNCHANGED decoding

\* ClientBuilder::custom_request
ClientBuilder_custom_request ==
    /\ builder.state = "new"
    /\ builder' = [builder EXCEPT !.custom_request = Some(CustomHandler)]
    /\ UNCHANGED <<heap, handles, calls>>
    /\ UNCHANGED decoding

\* ClientBuilder::build: panics without a key or with a key that is no
\* header value; otherwise the client and its three handles share two Arcs
ClientBuilder_build ==
    /\ builder.state = "new"
    /\ IF builder.api_key = None
       THEN /\ builder' = [builder EXCEPT !.state = "panicked"]
            /\ UNCHANGED <<heap, handles>>
       ELSE IF IsPanic(get_http_client(builder.api_key[1]))
       THEN /\ builder' = [builder EXCEPT !.state = "panicked"]
            /\ UNCHANGED <<heap, handles>>
       ELSE /\ builder' = [builder EXCEPT !.state = "built"]
            /\ heap' = << get_http_client(builder.api_key[1]).val,
                          IF builder.custom_request = None THEN DefaultHandler
                          ELSE builder.custom_request[1] >>
            /\ handles' = Client_handles(HttpClientAddr, RequestHandlerAddr)
    /\ UNCHANGED calls
    /\ UNCHANGED decoding

\* the request an operation builds through its handle's http_client
built(op, handle, method, url, body) ==
    [NoCall EXCEPT !.op = op,
                   !.request = Some(Request(heap[handle.http_client], method, url, body)),
                   !.hook = Some(heap[handle.request_handler]),
                   !.requests = 1]

\* (self.request_handler)(&mut request): the hook is called with the request
invoke(call) == [call EXCEPT !.pc = "awaiting", !.hooks = @ + 1]

\* an operation that calls the hook again after a failure, once
hook_failed_Retry(call, error) ==
    IF call.hooks < 2 THEN invoke(call)
    ELSE [call EXCEPT !.pc = "returned", !.result = Some(Err(From_reqwest_Error(error)))]

\* .await? on the hook's future when it is an Err: the operation returns
hook_failed(call, error) ==
    [call EXCEPT !.pc = "returned", !.result = Some(Err(From_reqwest_Error(error)))]

\* a query borrows the databases handle until it returns
Borrowed == \E c \in Slots : calls[c].op = "query" /\ calls[c].pc \in {"awaiting", "reading"}

\* Client::search(self, options): takes the whole client
Client_search(c) ==
    /\ calls[c].pc = "idle"
    /\ handles["client"] # None
    /\ ~Borrowed
    /\ calls' = [calls EXCEPT ![c] =
                    invoke(built("search", handles["client"][1], "POST",
                                 "https://api.notion.com/v1/search", Some(JObj(NoFields))))]
    /\ handles' = [h \in HandleNames |-> IF h = "children" THEN handles[h] ELSE None]
    /\ UNCHANGED <<builder, heap>>
    /\ UNCHANGED decoding

\* Pages::retrieve(self, options): takes the pages handle out of the client
Pages_retrieve(c) ==
    /\ calls[c].pc = "idle"
    /\ handles["pages"] # None
    /\ calls' = [calls EXCEPT ![c] =
                    invoke(built("retrieve", handles["pages"][1], "GET",
                                 "https://api.notion.com/v1/pages/" \o "p1", None))]
    /\ handles' = [handles EXCEPT !["pages"] = None, !["client"] = None]
    /\ UNCHANGED <<builder, heap>>
    /\ UNCHANGED decoding

\* Blocks::children(&self): a new handle with clones of both Arcs (the
\* model keeps one unused BlockChildren at a time)
Blocks_children ==
    /\ handles["blocks"] # None
    /\ handles["children"] = None
    /\ handles' = [handles EXCEPT !["children"] = Some(Handle_clone(handles["blocks"][1]))]
    /\ UNCHANGED <<builder, heap, calls>>
    /\ UNCHANGED decoding

\* BlockChildren::list(self, options)
BlockChildren_list(c) ==
    /\ calls[c].pc = "idle"
    /\ handles["children"] # None
    /\ calls' = [calls EXCEPT ![c] =
                    invoke(built("list", handles["children"][1], "GET",
                                 "https://api.notion.com/v1/blocks/" \o "b1" \o "/children",
                                 None))]
    /\ handles' = [handles EXCEPT !["children"] = None]
    /\ UNCHANGED <<builder, heap>>
    /\ UNCHANGED decoding

\* the filter given to Databases::query (DatabaseQueryOptions::filter)
Filters == { Some(JObj([property |-> JStr("Done")])) }

\* Databases::query(&self, options)
Databases_query(c) ==
    /\ calls[c].pc = "idle"
    /\ handles["databases"] # None
    /\ \E filter \in Filters :
          calls' = [calls EXCEPT ![c] =
                       invoke(built("query", handles["databases"][1], "POST",
                                    "https://api.notion.com/v1/databases/" \o "d1" \o "/query",
                                    IF filter = None THEN None
                                    ELSE Some(JObj([filter |-> filter[1]]))))]
    /\ UNCHANGED <<builder, heap, handles>>
    /\ UNCHANGED decoding

\* the hook's future resolves to Err(reqwest::Error)
HookFails(c) ==
    /\ calls[c].pc = "awaiting"
    /\ calls' = [calls EXCEPT ![c] = hook_failed(calls[c], ReqwestError("request", None))]
    /\ UNCHANGED <<builder, heap, handles>>
    /\ UNCHANGED decoding

\* the hook's future resolves to Ok(response): the status is known, the
\* body is still to be read
HookResponds(c) ==
    /\ calls[c].pc = "awaiting"
    /\ \E status \in Statuses :
          calls' = [calls EXCEPT ![c] =
                       [calls[c] EXCEPT !.pc = "reading",
                                        !.response = Some([status |-> status,
                                                           body |-> None])]]
    /\ UNCHANGED <<builder, heap, handles>>
    /\ UNCHANGED decoding

\* the body has been read (or reading it failed): the operation returns
BodyRead(c) ==
    /\ calls[c].pc = "reading"
    /\ \E body \in Bodies(calls[c].op, calls[c].response[1].status) :
          calls' = [calls EXCEPT ![c] =
                       [calls[c] EXCEPT
                           !.pc = "returned",
                           !.response = Some([status |-> calls[c].response[1].status,
                                              body |-> Some(body)]),
                           !.result = Some(Outcome(calls[c].op,
                                                   calls[c].response[1].status, body))]]
    /\ UNCHANGED <<builder, heap, handles>>
    /\ UNCHANGED decoding

\* the caller drops what the operation returned
Drop(c) ==
    /\ calls[c].pc = "returned"
    /\ calls' = [calls EXCEPT ![c] = NoCall]
    /\ UNCHANGED <<builder, heap, handles>>
    /\ UNCHANGED decoding

NextTransport ==
    \/ \E api_key \in ApiKeys : ClientBuilder_api_key(api_key)
    \/ ClientBuilder_custom_request
    \/ ClientBuilder_build
    \/ Blocks_children
    \/ \E c \in Slots : Client_search(c)
    \/ \E c \in Slots : Pages_retrieve(c)
    \/ \E c \in Slots : BlockChildren_list(c)
    \/ \E c \in Slots : Databases_query(c)
    \/ \E c \in Slots : HookFails(c)
    \/ \E c \in Slots : HookResponds(c)
    \/ \E c \in Slots : BodyRead(c)
    \/ \E c \in Slots : Drop(c)

SpecTransport == Init /\ [][NextTransport]_vars

(***************************************************************************)
(* Rich-text spans of type `text`, as the API sends them and with fields   *)
(* moved or missing.  `truth` records what each field was set to.          *)
(***************************************************************************)
SpanPlainTexts == { "hi", "", "x y" }

\* the top-level href: absent, null or a string
SpanHrefs == { "absent", "null", "https://a", "https://b" }

\* text.link: absent, null, the object the API sends, or a bare string
SpanLinks == { "absent", "null", "object", "string" }

\* text.href (the API has no such field): absent or a string
SpanTextHrefs == { "absent", "https://t" }

SpanAnnotations ==
    { [json |-> J_Annotations,
       value |-> [bold |-> FALSE, italic |-> TRUE, strikethrough |-> FALSE,
                  underline |-> FALSE, code |-> FALSE, color |-> "default"]],
      [json |-> JObj([bold |-> JBool(TRUE), italic |-> JBool(FALSE),
                      strikethrough |-> JBool(FALSE), underline |-> JBool(TRUE),
                      code |-> JBool(FALSE), color |-> JStr("red_background")]),
       value |-> [bold |-> TRUE, italic |-> FALSE, strikethrough |-> FALSE,
                  underline |-> TRUE, code |-> FALSE, color |-> "red_background"]] }

\* the fields of an object for a setting: none, null, or a string
Setting(key, setting) ==
    CASE setting = "absent" -> NoFields
      [] setting = "null" -> (key :> JNull)
      [] OTHER -> (key :> JStr(setting))

J_Link(link) ==
    CASE link = "absent" -> NoFields
      [] link = "null" -> [link |-> JNull]
      [] link = "object" -> [link |-> JObj([url |-> JStr("https://a")])]
      [] link = "string" -> [link |-> JStr("https://a")]

J_Span(plain_text, href, link, text_href, annotations) ==
    JObj([type |-> JStr("text"), plain_text |-> JStr(plain_text),
          annotations |-> annotations.json,
          text |-> JObj([content |-> JStr(plain_text)] @@ J_Link(link)
                        @@ Setting("href", text_href))]
         @@ Setting("href", href))

SpanTruth(plain_text, href, link, text_href, annotations) ==
    [class |-> "span", plain_text |-> plain_text,
     href |-> IF href \in {"absent", "null"} THEN None ELSE Some(href),
     link |-> link, text_href |-> text_href, annotations |-> annotations.value]

\* RichText::try_from(data) on a span of type `text`
DecodeTextSpan ==
    /\ pc = "idle"
    /\ \E plain_text \in SpanPlainTexts, href \in SpanHrefs, link \in SpanLinks,
          text_href \in SpanTextHrefs, annotations \in SpanAnnotations :
          Call("RichText",
               J_Span(plain_text, href, link, text_href, annotations),
               SpanTruth(plain_text, href, link, text_href, annotations),
               RichText_try_from(J_Span(plain_text, href, link, text_href, annotations)))

NextText == DecodeTextSpan \/ Return

SpecText == Init /\ [][NextText]_vars

(***************************************************************************)
(* Instants, counted independently of chrono's field arithmetic: the day   *)
(* number of a civil date (days since 1970-01-01) and the second of that   *)
(* day.                                                                    *)
(***************************************************************************)
DayNumber(y, m, d) ==
    LET yy == IF m <= 2 THEN y - 1 ELSE y
        era == yy \div 400
        yoe == yy - era * 400
        mp == (m + 9) % 12
        doy == (153 * mp + 2) \div 5 + d - 1
        doe == yoe * 365 + yoe \div 4 - yoe \div 100 + doy
    IN  era * 146097 + doe - 719468

Instant(y, m, d, secs, offset) ==
    LET total == secs - offset
    IN  <<DayNumber(y, m, d) + total \div SecsPerDay, total % SecsPerDay>>

RECURSIVE StripZeros(_)
StripZeros(s) ==
    IF Len(s) > 0 /\ Ch(s, Len(s)) = "0" THEN StripZeros(Sub(s, 1, Len(s) - 1)) ELSE s

\* the instant the input string denotes, from the parts it was built of
TruthInstant == Instant(truth.y, truth.m, truth.d, truth.secs, truth.offset)

\* text is an RFC 3339 timestamp for the instant `instant` with fraction `digits`
DenotesInstant(text, instant, digits) ==
    LET r == parse_from_rfc3339(text)
    IN  /\ IsOk(r)
        /\ LET t == r.val.utc
               leap == IF t.nanos >= NanosPerSec THEN 1 ELSE 0
           IN  Instant(t.y, t.m, t.d, t.secs + leap, 0) = instant
        /\ StripZeros(IF Ch(text, 20) = "." THEN Sub(text, 21, Len(text) - 6) ELSE "") = digits

InDateCall == pc # "idle" /\ fn = "DateValue"

\* C4 as stated: every string matching ^\d{4}-\d{2}-\d{2}$ decodes to the Date
\* sub-variant and formats as the string followed by T00:00:00+00:00.
C4_AsStated ==
    (InDateCall /\ truth.pattern) =>
        /\ IsOk(ret)
        /\ ret.val.variant = "Date"
        /\ (pc = "shown" => out = Some(arg \o "T00:00:00+00:00"))

\* C4 (amended): every string YYYY-MM-DD written in ASCII digits that names a
\* real calendar date (month 01-12, day within the month's length) decodes to
\* the Date sub-variant, and the decoded value formats as exactly that string
\* followed by T00:00:00+00:00.
C4_BareDateRoundTrip ==
    (InDateCall /\ truth.class = "bare" /\ truth.real) =>
        /\ IsOk(ret)
        /\ ret.val.variant = "Date"
        /\ (pc = "shown" => out = Some(arg \o "T00:00:00+00:00"))

C4_Witness ==
    /\ InDateCall /\ pc = "shown" /\ truth.class = "bare" /\ truth.real
    /\ arg = "2024-02-29"
    /\ out = Some("2024-02-29T00:00:00+00:00")

InFourDigitYears(instant) ==
    instant[1] \in DayNumber(0, 1, 1)..DayNumber(9999, 12, 31)

C6_OtherStringsFail ==
    (InDateCall /\ ~truth.pattern /\ ~truth.rfc3339) =>
        /\ IsErr(ret)
        /\ ret.err = ChronoParse

C6_Witness ==
    /\ InDateCall /\ ~truth.pattern /\ ~truth.rfc3339
    /\ arg = "2023-12-31T23:59:59"
    /\ IsErr(ret)

(***************************************************************************)
(* The tagged-union decoders                                               *)
(***************************************************************************)
InEntityCall == pc = "done" /\ fn \in Entities

\* the enum value of a decoded entity (Block, Property and DatabaseProperty
\* are structs holding it in a field)
DecodedVariant ==
    CASE fn \in {"Block", "Property"} -> ret.val.value
      [] fn = "DatabaseProperty" -> ret.val.kind
      [] OTHER -> ret.val

YieldsUnsupported == IsOk(ret) /\ DecodedVariant.variant = "Unsupported"

\* C1 as stated: whatever its other fields, an object whose discriminator is
\* a string outside the entity's known tags decodes to Unsupported, never to
\* an error.
C1_AsStated ==
    (InEntityCall /\ truth.object /\ truth.disc = "string" /\ ~truth.known)
        => YieldsUnsupported

\* C1 (amended): for each entity decoder, an object whose discriminator is a
\* string outside the entity's known tags, and whose fields that the decoder
\* reads before the discriminator are well-formed (Block: id, parent, the two
\* timestamps, the two users, has_children, archived; Property: a string id
\* and a string or absent next_url; DatabaseProperty: those and a string
\* name; Mention: the `mention` object holding the discriminator), decodes to
\* the Unsupported variant, whatever the variant payload is.
C1_UnknownTagFallsBack ==
    (InEntityCall /\ truth.object /\ truth.disc = "string" /\ ~truth.known
        /\ truth.base_ok)
        => YieldsUnsupported

C1_Witness ==
    /\ InEntityCall /\ fn = "Block" /\ truth.tag = "weird_new_block"
    /\ truth.mode = "bad" /\ truth.base_ok
    /\ YieldsUnsupported

\* the fragment the decoder reads the discriminator from
DiscriminatorHolder == IF fn = "Mention" THEN arg[2]["mention"] ELSE arg

\* C2: an Unsupported variant carries the discriminator string read from the
\* input as its tag and the entire JSON value passed to the decoder as its
\* payload.
C2_UnsupportedKeepsInput ==
    (InEntityCall /\ YieldsUnsupported) =>
        /\ truth.disc = "string"
        /\ DecodedVariant.tag = truth.tag
        /\ DecodedVariant.tag = Value_get(DiscriminatorHolder, "type")[1][2]
        /\ DecodedVariant.raw = arg

C2_Witness ==
    /\ InEntityCall /\ fn = "Mention" /\ truth.tag = "template_mention"
    /\ YieldsUnsupported
    /\ DecodedVariant.raw = arg

\* C7 as stated: an object without discriminator, or with a discriminator
\* that is not a string, fails with NoSuchProperty naming the field.
C7_AsStated ==
    (InEntityCall /\ truth.object /\ truth.disc \in {"absent", "nonstring"}) =>
        /\ IsErr(ret)
        /\ ret.err = NoSuchProperty("type")

\* C7 (amended): for each entity decoder, an object without discriminator or
\* with a discriminator that is not a string never yields a value, not even
\* Unsupported; when the fields read before the discriminator are well-formed,
\* the error is NoSuchProperty("type") if the discriminator is absent, and
\* Error::Deserialization carrying the fragment it was read from if it is
\* present but not a string.
C7_NoDiscriminatorNoValue ==
    (InEntityCall /\ truth.object /\ truth.disc \in {"absent", "nonstring"}) =>
        /\ ~IsOk(ret)
        /\ truth.base_ok =>
              /\ IsErr(ret)
              /\ truth.disc = "absent" => ret.err = NoSuchProperty("type")
              /\ truth.disc = "nonstring" =>
                     ret.err = Deserialization(Some(DiscriminatorHolder))

C7_Witness ==
    /\ InEntityCall /\ fn = "Formula" /\ truth.disc = "nonstring"
    /\ arg[2]["type"] = JNum(7)
    /\ IsErr(ret) /\ ret.err.kind = "Deserialization"

(***************************************************************************)
(* The property maps                                                       *)
(***************************************************************************)
InGetCall == pc = "shown" /\ fn \in {"Properties", "DatabaseProperties"}

\* C3: after decoding a property object, for every name key k with decoded
\* value v, looking up by v's embedded id returns a value equal to v.
C3_LookupByIdFindsValue ==
    InGetCall =>
        \A k \in DOMAIN arg[2] :
            LET v == ret.val.map[k]
            IN  out[1].key = v.id => out[1].found = Some(v)

(***************************************************************************)
(* Blocks                                                                  *)
(***************************************************************************)
InTreeCall == pc = "done" /\ fn = "Block" /\ truth.class = "tree"

\* the children sequence held by a decoded block: Some(sequence), or None
\* when it is absent or the variant has no such field
ChildrenOf(block) ==
    IF block.value.variant # "Unsupported" /\ "children" \in DOMAIN block.value.value
    THEN block.value.value.children
    ELSE None

\* kids is the sequence of decoded Blocks of the JSON array list, in order
DecodedInOrder(kids, list) ==
    /\ Len(kids) = Len(list)
    /\ \A i \in 1..Len(list) :
          /\ IsOk(Block_try_from(list[i]))
          /\ kids[i] = Block_try_from(list[i]).val
          /\ kids[i].id = list[i][2]["id"][2]

\* C8: for every kind that can contain children, a block carrying a children
\* array of length N decodes to a children sequence of exactly the N decoded
\* Blocks, in the order of the array (each child decoded the same way).
C8_ChildrenInOrder ==
    (InTreeCall /\ truth.kind \in NestingKinds /\ truth.children = "list" /\ IsOk(ret)) =>
        /\ ChildrenOf(ret.val) # None
        /\ DecodedInOrder(ChildrenOf(ret.val)[1], truth.list)

\* C9: a block without `children` key decodes to an absent children sequence
\* (None, not an empty sequence); with has_children = true and no children
\* array it decodes successfully and has_children is still true.
C9_AbsentChildren ==
    (InTreeCall /\ truth.children = "absent") =>
        /\ IsOk(ret)
        /\ ChildrenOf(ret.val) = None
        /\ ChildrenOf(ret.val) # Some(<<>>)
        /\ ret.val.has_children = truth.has_children

C9_Witness ==
    /\ InTreeCall /\ truth.children = "absent" /\ truth.kind = "quote"
    /\ truth.has_children
    /\ IsOk(ret) /\ ret.val.has_children /\ ret.val.value.value.children = None

\* the variant of BlockType that each documented block kind has
BlockKindVariant ==
    [ paragraph |-> "Paragraph", heading_1 |-> "Heading1", heading_2 |-> "Heading2",
      heading_3 |-> "Heading3", bulleted_list_item |-> "BulletedListItem",
      numbered_list_item |-> "NumberedListItem", to_do |-> "ToDo", quote |-> "Quote",
      callout |-> "Callout", code |-> "Code", image |-> "Image", file |-> "File",
      video |-> "Video", pdf |-> "PDF", column |-> "Column",
      column_list |-> "ColumnList", child_page |-> "ChildPage",
      child_database |-> "ChildDatabase" ]

\* C10: a decoded Block's content variant is the one named by its `type`:
\* every documented kind decodes to its own variant, and Unsupported appears
\* only for a type that is none of these kinds, carrying that type as tag.
C10_VariantMatchesType ==
    (pc = "done" /\ fn = "Block" /\ truth.class = "entity" /\ IsOk(ret)) =>
        /\ truth.tag \in DOMAIN BlockKindVariant =>
               ret.val.value.variant = BlockKindVariant[truth.tag]
        /\ ret.val.value.variant = "Unsupported" =>
               /\ truth.tag \notin DOMAIN BlockKindVariant
               /\ ret.val.value.tag = truth.tag

(***************************************************************************)
(* Transport operations                                                    *)
(***************************************************************************)
\* the operation in slot c has returned to its caller
Returned(c) == calls[c].pc = "returned"

\* C11: in every execution of a transport operation exactly one request is
\* built and the hook is invoked exactly once for it, whatever the outcome
\* (success status, failure status, transport failure); the hook is never
\* invoked again before the operation returns.
C11_OneRequestOneHookCall ==
    \A c \in Slots :
        calls[c].pc # "idle" => calls[c].requests = 1 /\ calls[c].hooks = 1

C11_Witness ==
    /\ Returned(1) /\ calls[1].response = None /\ IsErr(calls[1].result[1])
    /\ calls[1].hooks = 1
    /\ Returned(2) /\ calls[2].response # None /\ calls[2].response[1].status = 404
    /\ calls[2].hooks = 1

\* the operation in slot c has returned after the hook gave it a response
\* with the given kind of status, whose body could be read
Classified(c, failure) ==
    /\ Returned(c)
    /\ calls[c].response # None
    /\ IsErr(error_for_status_ref(calls[c].response[1].status)) = failure
    /\ calls[c].response[1].body[1].readable

\* the status error of the response of slot c
StatusError(c) == error_for_status_ref(calls[c].response[1].status).err

\* C12: when the hook returns a response with a failure status, the
\* operation returns an Http error for that status, with the decoded error
\* body attached when the body is JSON; when the error body cannot be
\* decoded the operation still returns the status failure, never a decode
\* error in its place.
C12_StatusFailureKept ==
    \A c \in Slots :
        Classified(c, TRUE) =>
            /\ IsErr(calls[c].result[1])
            /\ calls[c].result[1].err.kind = "Http"
            /\ calls[c].result[1].err.error = StatusError(c)
            /\ calls[c].response[1].body[1].json # None =>
                   calls[c].result[1].err.frag = calls[c].response[1].body[1].json

(***************************************************************************)
(* Panics and swallowed errors                                             *)
(***************************************************************************)
\* C13: no decoder panics on upstream data: for every JSON value given to a
\* decoder, decoding returns either a decoded value or a typed error.
C13_NoDecoderPanics ==
    pc # "idle" => IsOk(ret) \/ IsErr(ret)

\* the decoder of entity e reads the payload field of variant `tag`
PayloadRead(e, tag) ==
    e = "DatabaseProperty" => tag \in {"multi_select", "select", "formula"}

\* the number 0 is a well-formed payload of variant `tag` of entity e
ZeroFits(e, tag) == e = "Formula" /\ tag = "number"

\* C14: no decode error is swallowed: when the payload field that a decoder
\* reads for a known tag is present but of the wrong shape, or is absent,
\* the decoder does not return a decoded value.
C14_NoErrorSwallowed ==
    (/\ InEntityCall /\ truth.object /\ truth.known /\ truth.base_ok
     /\ PayloadRead(fn, truth.tag)
     /\ \/ truth.mode = "absent"
        \/ truth.mode = "bad" /\ ~ZeroFits(fn, truth.tag)) =>
        ~IsOk(ret)

\* C15: every Deserialization error raised because the payload of a known
\* variant is present but fails to decode carries the raw JSON fragment that
\* was being decoded; the fragment is never absent.
C15_FragmentAttached ==
    (/\ InEntityCall /\ truth.object /\ truth.known /\ truth.base_ok
     /\ truth.mode = "bad"
     /\ IsErr(ret) /\ ret.err.kind = "Deserialization") =>
        ret.err.frag # None

(***************************************************************************)
(* Rich-text spans                                                         *)
(***************************************************************************)
InSpanCall == pc = "done" /\ fn = "RichText" /\ truth.class = "span"

\* C16: decoding a rich-text span of type `text` yields a Text value whose
\* shared fields equal those of the span: plain_text equals the top-level
\* plain_text, annotations equal the top-level annotations, and href equals
\* the top-level href string when that is present and is absent otherwise.
C16_SharedFieldsKept ==
    (InSpanCall /\ IsOk(ret)) =>
        /\ ret.val.variant = "Text"
        /\ ret.val.value.plain_text = truth.plain_text
        /\ ret.val.value.annotations = truth.annotations
        /\ ret.val.value.href = truth.href

\* the body read by slot c does not decode into the type of its operation
BodyUndecodable(c) ==
    \/ calls[c].response[1].body[1].json = None
    \/ ~IsOk(De(EntityType(calls[c].op), calls[c].response[1].body[1].json[1]))

\* C17: for every transport operation, when the hook returns a success
\* status whose body fails to decode into the expected entity, the operation
\* returns Error::Deserialization (carrying the body when it is JSON), not
\* Error::Http.
C17_DecodeFailureIsDeserialization ==
    \A c \in Slots :
        (Classified(c, FALSE) /\ BodyUndecodable(c)) =>
            /\ IsErr(calls[c].result[1])
            /\ calls[c].result[1].err.kind = "Deserialization"
            /\ calls[c].response[1].body[1].json # None =>
                   calls[c].result[1].err.frag = calls[c].response[1].body[1].json

\* every handle the program owns holds the two Arcs made by build()
HandlesShareConfiguration ==
    \A h \in HandleNames :
        handles[h] # None => handles[h][1] = Handle(HttpClientAddr, RequestHandlerAddr)

\* every operation in flight was built with the client's headers and calls
\* the client's hook
CallsUseConfiguration ==
    \A c \in Slots :
        calls[c].pc # "idle" =>
            /\ calls[c].request[1].headers = heap[HttpClientAddr]
            /\ calls[c].hook = Some(heap[RequestHandlerAddr])

\* what an operation returned is determined by its own operation and the
\* response the hook gave to it
ResultsFromOwnResponse ==
    \A c \in Slots :
        Returned(c) =>
            calls[c].result =
                IF calls[c].response = None
                THEN Some(Err(From_reqwest_Error(ReqwestError("request", None))))
                ELSE Some(Outcome(calls[c].op, calls[c].response[1].status,
                                  calls[c].response[1].body[1]))

\* once built, the shared configuration stays as it is, and a step of one
\* operation leaves every other operation as it was
ConfigurationFrozen ==
    /\ builder.state = "built" => heap' = heap /\ builder' = builder
    /\ \A c, d \in Slots : (c # d /\ calls'[c] # calls[c]) => calls'[d] = calls[d]

DateValue_instant(value) ==
    IF value.variant = "Date" THEN and_hms_midnight_utc(value.date) ELSE value.time

Redecodes == pc = "again" /\ fn = "DateValue"

\* C19: for every DateValue v obtained from a successful decode (either
\* sub-variant), decoding the string format(v) succeeds, formatting that
\* result yields the same string as format(v), and the result denotes the
\* same instant as v.
C19_FormatDecodeStable ==
    Redecodes =>
        /\ IsOk(out[2])
        /\ out[3] = Some(out[1])
        /\ DateValue_instant(out[2].val) = DateValue_instant(ret.val)

=============================================================================
